---------------------------- MODULE Spec2Model ----------------------------
(***************************************************************************)
(* The AI refactor-and-translate pipeline of nextjs-utils.                 *)
(*                                                                         *)
(* Two scripts are modelled.  "makeMultilingual" is main() of              *)
(* src/makeMultilingual.js: create the locale folder, discover the         *)
(* eligible files, refactor them in batches (processFiles) and translate   *)
(* the default dictionary (autoTranslateCommonJson).  "populateLocales" is *)
(* translateMissingKeys(), in its two variants: one request per locale     *)
(* (src/unnamed/part_002) and a pool of workers with one request per leaf  *)
(* (the node script embedded in src/nextjs-cleaner.sh).                    *)
(*                                                                         *)
(* Texts (source code, translation keys) are sequences of one-character    *)
(* strings, so that the regular expressions of the code are modelled by    *)
(* what they match.  A step of the model is one turn of the event loop:    *)
(* the synchronous code that runs between two awaited answers.             *)
(***************************************************************************)
EXTENDS Integers, Sequences, FiniteSets, TLC

\* ------------------------------------------------------------------------
\* Bounds of the model
\* ------------------------------------------------------------------------
\* Largest concurrency limit drawn for a run.
MaxLimit == 2
\* Number of source files on disk.
NumFiles == 3
\* Number of additional (target) locales of a translation run.
NumLocales == 2
\* Largest number of eligible files of a whole run of main().
MainEligible == 1
\* Number of additional locales of a whole run of main().
MainLocales == 1

\* ------------------------------------------------------------------------
\* Texts
\* ------------------------------------------------------------------------
SQ == "'"
DQ == "\""
\* The backquote, which a TLA+ string cannot hold, is written as the symbol "BQ".
BT == "BQ"
NL == "\n"
SP == " "

Letters ==
  {"a","b","c","d","e","f","g","h","i","j","k","l","m",
   "n","o","p","q","r","s","t","u","v","w","x","y","z",
   "A","B","C","D","E","F","G","H","I","J","K","L","M",
   "N","O","P","Q","R","S","T","U","V","W","X","Y","Z"}

\* What \s and String.prototype.trim() take for white space, within the
\* alphabet of the model.
Whitespace == {SP, NL, "\t"}

Quotes == {SQ, DQ}

\* pat occurs in s at index i.
HasAt(s, i, pat) ==
  /\ i >= 1
  /\ i + Len(pat) - 1 <= Len(s)
  /\ \A k \in 1..Len(pat) : s[i + k - 1] = pat[k]

\* String.prototype.includes
Includes(s, pat) == \E i \in 1..(Len(s) + 1) : HasAt(s, i, pat)

\* The first index j >= i with s[j] outside C (Len(s)+1 when there is none):
\* where a greedy C* that starts at i stops.
SkipWhile(s, i, C) ==
  CHOOSE j \in i..(Len(s) + 1) :
    /\ \A k \in i..(j - 1) : s[k] \in C
    /\ (j = Len(s) + 1 \/ s[j] \notin C)

\* String.prototype.trim().length === 0
IsBlank(s) == \A k \in 1..Len(s) : s[k] \in Whitespace

Fence == <<BT, BT, BT>>

\* sanitizeCode: output.replace(/^\s*```[a-zA-Z]*\s*|\s*```$/g, '') and a
\* final newline when there is none.  The first alternative can match only
\* at the start of the text: white space, a fence, a language tag, white
\* space.  LeadEnd is the index of the first character it leaves.
LeadEnd(s) ==
  LET a == SkipWhile(s, 1, Whitespace)
  IN  IF HasAt(s, a, Fence)
      THEN SkipWhile(s, SkipWhile(s, a + 3, Letters), Whitespace)
      ELSE 1

\* The second alternative matches a fence that ends the text, with the
\* white space before it; the match is the leftmost one, so it starts at
\* the first index from which only white space precedes the fence.
StripTail(r) ==
  IF Len(r) >= 3 /\ HasAt(r, Len(r) - 2, Fence)
  THEN LET p == CHOOSE q \in 1..(Len(r) - 2) :
                  /\ \A k \in q..(Len(r) - 3) : r[k] \in Whitespace
                  /\ (q = 1 \/ r[q - 1] \notin Whitespace)
       IN  SubSeq(r, 1, p - 1)
  ELSE r

sanitizeCode(output) ==
  LET sanitized == StripTail(SubSeq(output, LeadEnd(output), Len(output)))
  IN  IF Len(sanitized) > 0 /\ sanitized[Len(sanitized)] = NL
      THEN sanitized
      ELSE sanitized \o <<NL>>

\* validateUpdatedCode: false for an empty or white-space-only text.
validateUpdatedCode(newCode) == ~(Len(newCode) = 0 \/ IsBlank(newCode))

\* One match of /t\((["'])([^"']+)\1\)/ that starts at index i: the letter
\* t, an opening parenthesis, a quote, one or more characters that are not
\* quotes, the same quote, a closing parenthesis.  KeyEnd is the index of
\* the quote that ends the key.
KeyEnd(code, i) == SkipWhile(code, i + 3, {code[k] : k \in 1..Len(code)} \ Quotes)

MatchesAt(code, i) ==
  /\ i + 5 <= Len(code)
  /\ code[i] = "t"
  /\ code[i + 1] = "("
  /\ code[i + 2] \in Quotes
  /\ LET j == KeyEnd(code, i)
     IN  /\ j > i + 3
         /\ j + 1 <= Len(code)
         /\ code[j] = code[i + 2]
         /\ code[j + 1] = ")"

\* The scan of pattern.exec with the g flag: matches are found from left to
\* right and do not overlap.
RECURSIVE ScanKeys(_, _)
ScanKeys(code, i) ==
  IF i > Len(code) THEN {}
  ELSE IF MatchesAt(code, i)
       THEN LET j == KeyEnd(code, i)
            IN  {SubSeq(code, i + 3, j - 1)} \cup ScanKeys(code, j + 2)
       ELSE ScanKeys(code, i + 1)

extractUsedKeys(code) == ScanKeys(code, 1)

\* The heuristic of getEligibleFiles on a file's content:
\* /<[a-zA-Z]|jsx>/.test(content) && !content.includes('useTranslations')
\* && !content.includes('t(["\']').  The last pattern is a plain string,
\* the six characters t ( [ " ' ] and nothing else.
HasMarkup(content) ==
  \/ \E i \in 1..(Len(content) - 1) :
       content[i] = "<" /\ content[i + 1] \in Letters
  \/ Includes(content, <<"j", "s", "x", ">">>)

UseTranslationsWord ==
  <<"u","s","e","T","r","a","n","s","l","a","t","i","o","n","s">>

LookupLiteral == <<"t", "(", "[", DQ, SQ, "]">>

IsEligibleContent(content) ==
  /\ HasMarkup(content)
  /\ ~Includes(content, UseTranslationsWord)
  /\ ~Includes(content, LookupLiteral)

\* ------------------------------------------------------------------------
\* Dictionaries
\* ------------------------------------------------------------------------
\* A dictionary (a parsed common.json, a translations map) is a function
\* from keys to nodes; a node is a string leaf or a nested dictionary.  A
\* key is a text; a leaf's value is a sequence of words.
Str(x) == [t |-> "str", v |-> x, kv |-> <<>>]
Obj(d) == [t |-> "obj", v |-> <<>>, kv |-> d]

EmptyDict == <<>>

IsObj(node) == node.t = "obj"

\* JavaScript's truthiness of a node: every object, every non-empty string.
Truthy(node) == IsObj(node) \/ Len(node.v) > 0

\* obj.hasOwnProperty(key); the keys of the model are never own properties
\* of a primitive string.
HasOwn(node, key) == IsObj(node) /\ key \in DOMAIN node.kv

\* The order in which Object.entries and for...in enumerate: JavaScript's
\* insertion order is replaced by one fixed order of the keys.
RECURSIVE SetToSeq(_)
SetToSeq(S) ==
  IF S = {} THEN <<>>
  ELSE LET x == CHOOSE y \in S : TRUE
       IN  <<x>> \o SetToSeq(S \ {x})

Entries(d) == SetToSeq(DOMAIN d)

\* { ...a, ...b }
Spread(a, b) ==
  [k \in (DOMAIN a) \cup (DOMAIN b) |-> IF k \in DOMAIN b THEN b[k] ELSE a[k]]

\* A findMissingKeys that does not look below a key the target holds.
MissingIn_Shallow(refObj, targ) ==
  [k \in {x \in DOMAIN refObj : ~HasOwn(targ, x)} |-> refObj[k]]

\* A findMissingKeys that copies the whole subtree of a key both hold when
\* something is missing below it.
RECURSIVE MissingIn_WholeParent(_, _)
MissingIn_WholeParent(refObj, targ) ==
  LET below(k) == MissingIn_WholeParent(refObj[k].kv, targ.kv[k])
      keep == {k \in DOMAIN refObj :
                 \/ ~HasOwn(targ, k)
                 \/ (IsObj(refObj[k]) /\ DOMAIN below(k) # {})}
  IN  [k \in keep |-> refObj[k]]

\* findMissingKeys.recurse: a key the target lacks carries its whole
\* subtree; a key both hold is descended into when the reference's value is
\* an object; the parents of a missing key are created when it is recorded.
RECURSIVE MissingIn(_, _)
MissingIn(refObj, targ) ==
  LET below(k) == MissingIn(refObj[k].kv, targ.kv[k])
      keep == {k \in DOMAIN refObj :
                 \/ ~HasOwn(targ, k)
                 \/ (IsObj(refObj[k]) /\ DOMAIN below(k) # {})}
  IN  [k \in keep |-> IF ~HasOwn(targ, k) THEN refObj[k] ELSE Obj(below(k))]

findMissingKeys(reference, target) == MissingIn(reference, Obj(target))

\* A deepMerge that replaces a nested mapping of the target by the source's.
MergeInto_Shallow(targ, source) ==
  IF ~IsObj(targ) THEN targ ELSE Obj(Spread(targ.kv, source))

\* deepMerge(target, source), on nodes.  An object value of the source is
\* merged into target[key] || {}; any other value replaces target[key].
\* When the target is a primitive string the property assignments are
\* dropped (the scripts run in sloppy mode) and the string is returned.
RECURSIVE MergeInto(_, _)
MergeInto(targ, source) ==
  IF ~IsObj(targ) THEN targ
  ELSE Obj([k \in (DOMAIN targ.kv) \cup (DOMAIN source) |->
              IF k \notin DOMAIN source THEN targ.kv[k]
              ELSE IF IsObj(source[k])
                   THEN MergeInto(IF k \in DOMAIN targ.kv /\ Truthy(targ.kv[k])
                                  THEN targ.kv[k]
                                  ELSE Obj(EmptyDict),
                                  source[k].kv)
                   ELSE source[k]])

deepMerge(target, source) == MergeInto(Obj(target), source).kv

\* flattenObject(obj, prefix): the leaves in enumeration order, each with
\* its dotted path.
RECURSIVE FlattenFrom(_, _, _)
FlattenFrom(obj, prefix, keys) ==
  IF keys = <<>> THEN <<>>
  ELSE LET key == Head(keys)
           currentPath == IF Len(prefix) > 0 THEN prefix \o <<".">> \o key ELSE key
           here == IF IsObj(obj[key])
                   THEN FlattenFrom(obj[key].kv, currentPath, Entries(obj[key].kv))
                   ELSE <<[path |-> currentPath, value |-> obj[key].v]>>
       IN  here \o FlattenFrom(obj, prefix, Tail(keys))

flattenObject(obj) == FlattenFrom(obj, <<>>, Entries(obj))

\* keyPath.split('.')
RECURSIVE SplitFrom(_, _, _)
SplitFrom(p, i, part) ==
  IF i > Len(p) THEN <<part>>
  ELSE IF p[i] = "." THEN <<part>> \o SplitFrom(p, i + 1, <<>>)
       ELSE SplitFrom(p, i + 1, Append(part, p[i]))

\* An unflattenTranslations that does not split the path.
SplitPath_Whole(p) == <<p>>

SplitPath(p) == SplitFrom(p, 1, <<>>)

\* The inner loop of unflattenTranslations for one path: each part but the
\* last steps into current[part] || {}, the last part is assigned.  A step
\* into a primitive string leaves it as it is.
RECURSIVE SetPath(_, _, _)
SetPath(node, parts, translated) ==
  IF ~IsObj(node) THEN node
  ELSE LET part == Head(parts)
           child == IF part \in DOMAIN node.kv /\ Truthy(node.kv[part])
                    THEN node.kv[part]
                    ELSE Obj(EmptyDict)
           new == IF Len(parts) = 1
                  THEN Str(translated)
                  ELSE SetPath(child, Tail(parts), translated)
       IN  Obj([k \in (DOMAIN node.kv) \cup {part} |->
                  IF k = part THEN new ELSE node.kv[k]])

RECURSIVE UnflattenFrom(_, _)
UnflattenFrom(node, translations) ==
  IF translations = <<>> THEN node
  ELSE UnflattenFrom(
         SetPath(node, SplitPath(Head(translations).path), Head(translations).translated),
         Tail(translations))

unflattenTranslations(translations) == UnflattenFrom(Obj(EmptyDict), translations).kv

\* The leaf paths of a dictionary, each a sequence of keys.
RECURSIVE LeafPaths(_)
LeafPaths(d) ==
  UNION {IF IsObj(d[k])
         THEN {<<k>> \o p : p \in LeafPaths(d[k].kv)}
         ELSE {<<k>>} : k \in DOMAIN d}

\* The node at a path of keys, or NoNode.
NoNode == [t |-> "none", v |-> <<>>, kv |-> <<>>]

RECURSIVE NodeAt(_, _)
NodeAt(node, p) ==
  IF p = <<>> THEN node
  ELSE IF HasOwn(node, Head(p)) THEN NodeAt(node.kv[Head(p)], Tail(p))
       ELSE NoNode

HasPath(d, p) == NodeAt(Obj(d), p) # NoNode

\* ------------------------------------------------------------------------
\* Configuration, files and sample data
\* ------------------------------------------------------------------------
DEFAULT_LOCALE == "es"

\* The additional locales a run can be configured with, in order.
LocaleList == <<"en", "fr", "de", "it">>

Locales == {DEFAULT_LOCALE} \cup {LocaleList[i] : i \in 1..Len(LocaleList)}

\* getAllLocales(): the default locale, then the additional ones.
getAllLocales(adds) == <<DEFAULT_LOCALE>> \o adds

Range(q) == {q[i] : i \in 1..Len(q)}

Files == 1..NumFiles

\* Translation keys.
K_a == <<"a">>
K_b == <<"b">>
K_u == <<"u">>
K_g == <<"g">>
K_f == <<"f">>
K_h == <<"h">>
K_s == <<"s">>
K_t == <<"t">>
\* A key that holds the path separator, and the empty key.
K_dot == <<"a", ".", "b">>
K_empty == <<>>

\* Source files: a page with a literal heading, <h1>Hi</h1>, and a page
\* that is already refactored, useTranslations <p>{t('a')}</p>.
Src_Heading == <<"<", "h", "1", ">", "H", "i", "<", "/", "h", "1", ">">>

Src_Refactored ==
  UseTranslationsWord \o <<NL, "<", "p", ">", "{", "t", "(", SQ, "a", SQ, ")", "}", "<", "/", "p", ">">>

\* Code the AI returns: <h1>{t('a')}</h1>, and <p>{t("b")}{t('a')}</p>
\* wrapped in a code fence with a language tag.
Code_A == <<"<", "h", "1", ">", "{", "t", "(", SQ, "a", SQ, ")", "}", "<", "/", "h", "1", ">">>

Code_B_Bare ==
  <<"<", "p", ">", "{", "t", "(", DQ, "b", DQ, ")", "}",
    "{", "t", "(", SQ, "a", SQ, ")", "}", "<", "/", "p", ">">>

Code_B == Fence \o <<"j", "s", NL>> \o Code_B_Bare \o <<NL>> \o Fence

Code_Blank == <<SP, NL>>

\* Code whose lookup call has a second argument: <b>{t('s', n)}</b>.
Code_C ==
  <<"<", "b", ">", "{", "t", "(", SQ, "s", SQ, ",", SP, "n", ")", "}", "<", "/", "b", ">">>

\* The answers of the completion endpoint to a refactor request.  "content"
\* is what choices[0].message.content holds: nothing, text that is not
\* JSON, a JSON object wrapped in a code fence, or a JSON object, whose
\* fields follow.
NoFields == [needsUpdate |-> FALSE, updatedCode |-> <<>>, translations |-> EmptyDict]

Resp(ok, content, fields) ==
  [ok |-> ok, content |-> content, needsUpdate |-> fields.needsUpdate,
   updatedCode |-> fields.updatedCode, translations |-> fields.translations]

Resp_HttpError == Resp(FALSE, "none", NoFields)
Resp_NoContent == Resp(TRUE, "none", NoFields)
Resp_NotJson == Resp(TRUE, "text", NoFields)

Fields_A ==
  [needsUpdate |-> TRUE, updatedCode |-> Code_A,
   translations |-> (K_a :> <<"Welcome">>) @@ (K_u :> <<"Ignore me">>)]

Fields_B ==
  [needsUpdate |-> TRUE, updatedCode |-> Code_B,
   translations |-> (K_b :> <<"Bye">>) @@ (K_a :> <<"Hello">>)]

Fields_C ==
  [needsUpdate |-> TRUE, updatedCode |-> Code_C,
   translations |-> (K_s :> <<"Items">>)]

Fields_NoUpdate ==
  [needsUpdate |-> FALSE, updatedCode |-> Code_A,
   translations |-> (K_a :> <<"Unneeded">>)]

Fields_Blank ==
  [needsUpdate |-> TRUE, updatedCode |-> Code_Blank,
   translations |-> (K_a :> <<"Welcome">>)]

Resp_Fenced == Resp(TRUE, "fenced", Fields_A)
Resp_A == Resp(TRUE, "json", Fields_A)
Resp_B == Resp(TRUE, "json", Fields_B)
Resp_C == Resp(TRUE, "json", Fields_C)
Resp_NoUpdate == Resp(TRUE, "json", Fields_NoUpdate)
Resp_Blank == Resp(TRUE, "json", Fields_Blank)

RefactorResponses ==
  {Resp_HttpError, Resp_NoContent, Resp_NotJson, Resp_Fenced,
   Resp_A, Resp_B, Resp_C, Resp_NoUpdate, Resp_Blank}

NoResult == Resp(FALSE, "unset", NoFields)

\* Dictionaries on disk before a run.
Dict_EsFlat == (K_g :> Str(<<"Hola">>)) @@ (K_f :> Str(<<"Adios">>))
Dict_EsNested ==
  (K_g :> Str(<<"Hola">>)) @@
  (K_h :> Obj((K_t :> Str(<<"Titulo">>)) @@ (K_s :> Str(<<"Texto">>))))
\* A reference dictionary with a flat 'namespace.key' key, as the refactor
\* step adds them, next to a nested entry.
Dict_EsDotted ==
  (K_dot :> Str(<<"Plano">>)) @@ (K_a :> Obj(K_b :> Str(<<"Nido">>)))
Dict_EnPartial == (K_g :> Str(<<"Hello">>))
\* The en dictionary with every key of Dict_EsFlat translated.
Dict_EnFull == (K_g :> Str(<<"Hello">>)) @@ (K_f :> Str(<<"Bye">>))
Dict_EnWithA == (K_g :> Str(<<"Hello">>)) @@ (K_a :> Str(<<"Old">>))

\* ------------------------------------------------------------------------
\* State
\* ------------------------------------------------------------------------
VARIABLES
  script,        \* which program runs: "makeMultilingual" or a populateLocales variant
  dryRun,        \* DRY_RUN
  apiKey,        \* whether process.env.OPENAI_API_KEY is set
  unattended,    \* UNATTENDED
  limit,         \* MAX_CONCURRENT_REQUESTS
  additional,    \* the additional locales, in order
  mpc,           \* the position of main()
  disk,          \* the content of each source file
  dicts,         \* the content of each locale's common.json
  hasDict,       \* the locales whose common.json exists
  writes,        \* per locale, the writes of its common.json by this run, in order
  disk0,         \* disk, dicts and hasDict when the run started
  dicts0,
  hasDict0,
  badJson,       \* the locales whose common.json JSON.parse rejects
  eligible,      \* the files handed to processFiles
  batchNo,       \* processFiles: the batch that is running (0 before the first)
  fpc,           \* processFiles: per file, "idle", "waiting", "done" or "failed"
  retryCount,    \* processFileWithOpenAI: per file, the retryCount of the pending call
  issued,        \* per file, the requests issued so far
  requests,      \* per file, the calls of processFileWithOpenAI so far: retryCount and prompt
  result,        \* per file, the result processFileWithOpenAI returned
  lastAnswer,    \* per file, the kind of the last answer received for it
  allNewKeys,    \* processFiles: the aggregate of confirmed keys
  tBatchNo,      \* autoTranslateCommonJson: the batch of locales that is running
  tpc,           \* translateLocale: per locale, "idle", "waiting" or "done"
  tQueue,        \* translateLocale: per locale, the keys still to handle, the pending one first
  translations,  \* translateLocale: per locale, the translations gathered
  sIdx,          \* translateMissingKeys: the locales of the loop handled so far
  spc,           \* translateMissingKeys: "loop", "request" (one request pending) or "pool"
  queue,         \* processTranslationsConcurrently: the items not yet taken
  results,       \* processTranslationsConcurrently: the results, in completion order
  failures,      \* processTranslationsConcurrently: the paths of the errors the workers logged
  wpc,           \* per worker, "idle", "waiting" or "done"
  witem,         \* per worker, the item whose translation is pending
  netCalls,      \* the requests sent to the endpoint so far
  answered,      \* the requests the endpoint has answered so far
  sent,          \* the (locale, dotted path) pairs sent for translation so far
  fnArgs,        \* a call of a dictionary function on its own: the arguments
  fnOut,         \* the function called and the value it returned
  attempt,       \* checkProjectHealth: the build attempt that is running
  errorLines,    \* analyzeAndFixErrors: the files of the error lines still to handle
  fixedAnyFile   \* analyzeAndFixErrors: whether a fix was written in this attempt

cfgVars ==
  <<script, dryRun, apiKey, unattended, limit, additional, disk0, dicts0, hasDict0, badJson>>
fsVars == <<disk, dicts, hasDict, writes>>
refVars == <<batchNo, fpc, retryCount, issued, requests, result, lastAnswer, allNewKeys>>

trVars == <<tBatchNo, tpc, tQueue, translations>>
syVars == <<sIdx, spc, queue, results, failures, wpc, witem>>
fnVars == <<fnArgs, fnOut>>
healthVars == <<attempt, errorLines, fixedAnyFile>>

vars == <<cfgVars, fnVars, healthVars, mpc, fsVars, eligible, refVars, trVars, syVars, netCalls, answered, sent>>

\* ------------------------------------------------------------------------
\* processFiles and processFileWithOpenAI
\* ------------------------------------------------------------------------
Min(a, b) == IF a < b THEN a ELSE b

\* A slice that takes one element too many.
Slice_Wide(files, i, n) == SubSeq(files, i + 1, Min(i + n + 1, Len(files)))

\* files.slice(i, i + n), i counted from 0.
Slice(files, i, n) == SubSeq(files, i + 1, Min(i + n, Len(files)))

\* for (let i = 0; i < files.length; i += MAX_CONCURRENT_REQUESTS)
\*   batches.push(files.slice(i, i + MAX_CONCURRENT_REQUESTS));
RECURSIVE BatchesFrom(_, _, _)
BatchesFrom(files, i, n) ==
  IF i < Len(files)
  THEN <<Slice(files, i, n)>> \o BatchesFrom(files, i + n, n)
  ELSE <<>>

Batches(files, n) == BatchesFrom(files, 0, n)

Outstanding == {f \in Files : fpc[f] = "waiting"}

\* A retry test that allows a third retry.
CanRetry_Three(rc) == rc < 3

\* The retry test of processFileWithOpenAI: retryCount < 2.
CanRetry(rc) == rc < 2

\* A processFileWithOpenAI that retries after a non-success status too.
Classify_RetryStatus(r, rc) ==
  IF ~r.ok THEN (IF CanRetry(rc) THEN "retry" ELSE "throw")
  ELSE IF r.content = "none" THEN "throw"
  ELSE IF r.content # "json"
       THEN (IF CanRetry(rc) THEN "retry" ELSE "throw")
  ELSE IF r.needsUpdate /\ ~validateUpdatedCode(sanitizeCode(r.updatedCode))
       THEN (IF CanRetry(rc) THEN "retry" ELSE "throw")
  ELSE "return"

\* A processFileWithOpenAI that strips a code fence off the completion
\* before it parses it.
Classify_StripFence(r, rc) ==
  IF ~r.ok THEN "throw"
  ELSE IF r.content = "none" THEN "throw"
  ELSE IF r.content \notin {"json", "fenced"}
       THEN (IF CanRetry(rc) THEN "retry" ELSE "throw")
  ELSE IF r.needsUpdate /\ ~validateUpdatedCode(sanitizeCode(r.updatedCode))
       THEN (IF CanRetry(rc) THEN "retry" ELSE "throw")
  ELSE "return"

\* What processFileWithOpenAI does with an answer r when the call's
\* retryCount is rc: "throw" (an error reaches the caller), "retry" (the
\* function calls itself with retryCount + 1) or "return" (parsed is
\* returned).
Classify(r, rc) ==
  IF ~r.ok THEN "throw"
  ELSE IF r.content = "none" THEN "throw"
  ELSE IF r.content # "json"
       THEN (IF CanRetry(rc) THEN "retry" ELSE "throw")
  ELSE IF r.needsUpdate /\ ~validateUpdatedCode(sanitizeCode(r.updatedCode))
       THEN (IF CanRetry(rc) THEN "retry" ELSE "throw")
  ELSE "return"

\* The kind of an answer: a non-success status, a completion without
\* content, a content JSON.parse rejects (an object wrapped in a code fence,
\* or other text), an object whose updatedCode is empty or blank though it
\* declares an update, or a valid object.
AnswerKind(r) ==
  IF ~r.ok THEN "status"
  ELSE IF r.content = "none" THEN "empty"
  ELSE IF r.content = "fenced" THEN "fenced"
  ELSE IF r.content # "json" THEN "unparseable"
  ELSE IF r.needsUpdate /\ IsBlank(sanitizeCode(r.updatedCode)) THEN "invalid"
  ELSE "valid"

\* The object processFileWithOpenAI returns: updatedCode is sanitized when
\* needsUpdate is set.
Parsed(r) ==
  IF r.needsUpdate THEN [r EXCEPT !.updatedCode = sanitizeCode(r.updatedCode)] ELSE r

\* A processFiles that keeps every proposed key.
ConfirmedKeys_All(res) == res.translations

\* The keys processFiles adds to allNewKeys for a result: those of its
\* translations that extractUsedKeys finds in its updatedCode.
ConfirmedKeys(res) ==
  LET usedKeys == extractUsedKeys(res.updatedCode)
  IN  [k \in {x \in DOMAIN res.translations : x \in usedKeys} |-> res.translations[k]]

\* A processFiles that applies every result.
NeedsUpdate_Always(res) == TRUE

\* if (result.needsUpdate)
NeedsUpdate(res) == res.needsUpdate

\* What processFiles writes for a file's result: the file's new content.
WrittenCode(res, old) == IF NeedsUpdate(res) THEN res.updatedCode ELSE old

\* What processFiles adds to the aggregate for a file's result.
AddedKeys(res) == IF NeedsUpdate(res) THEN ConfirmedKeys(res) ELSE EmptyDict

\* updateCommonJson(newKeys, locales): every locale's dictionary becomes
\* { ...currentTranslations, ...newKeys }, from {} when the file is missing.
AsLeaves(keys) == [k \in DOMAIN keys |-> Str(keys[k])]

\* A write of a common.json: the function that writes it, the indentation
\* given to JSON.stringify, and the text that follows the JSON text.
Write(by, indent, end) == [by |-> by, indent |-> indent, end |-> end]

\* writes after fs.writeFileSync of the common.json of the locales ls.
Written(ls, w) == [l \in Locales |-> IF l \in ls THEN Append(writes[l], w) ELSE writes[l]]

\* An updateCommonJson that leaves the default locale's dictionary alone.
updateCommonJson_Additional(newKeys, locales) ==
  /\ dicts' = [l \in Locales |->
                 IF l \in Range(locales) \ {DEFAULT_LOCALE}
                 THEN Spread(IF l \in hasDict THEN dicts[l] ELSE EmptyDict, AsLeaves(newKeys))
                 ELSE dicts[l]]
  /\ hasDict' = hasDict \cup Range(locales)
  /\ writes' = Written(Range(locales), Write("updateCommonJson", 2, <<>>))

updateCommonJson(newKeys, locales) ==
  /\ dicts' = [l \in Locales |->
                 IF l \in Range(locales)
                 THEN Spread(IF l \in hasDict THEN dicts[l] ELSE EmptyDict, AsLeaves(newKeys))
                 ELSE dicts[l]]
  /\ hasDict' = hasDict \cup Range(locales)
  /\ writes' = Written(Range(locales), Write("updateCommonJson", 2, <<>>))

\* getTaskPrompt(REFACTOR, fileContent, retryCount): the instructions of
\* the task and the content, behind a warning when retryCount > 0.
RetryWarning == <<"IMPORTANT: The previous attempt failed to produce valid JSON.">>

getTaskPrompt(task, fileContent, rc) ==
  (IF rc > 0 THEN RetryWarning ELSE <<>>) \o <<task>> \o fileContent

\* A call processFileWithOpenAI(prompt, filePath, retryCount).
Call(prompt, rc) == [prompt |-> prompt, retryCount |-> rc]

\* A batch starts: every file of it is read and its request is issued, in
\* one turn.
StartBatch ==
  /\ mpc = "refactor"
  /\ Outstanding = {}
  /\ batchNo < Len(Batches(eligible, limit))
  /\ LET batch == Range(Batches(eligible, limit)[batchNo + 1])
     IN  /\ batchNo' = batchNo + 1
         /\ fpc' = [f \in Files |-> IF f \in batch THEN "waiting" ELSE fpc[f]]
         /\ issued' = [f \in Files |-> IF f \in batch THEN issued[f] + 1 ELSE issued[f]]
         /\ requests' = [f \in Files |->
                           IF f \in batch
                           THEN Append(requests[f], Call(getTaskPrompt("REFACTOR", disk[f], 0), 0))
                           ELSE requests[f]]
         /\ netCalls' = netCalls + Cardinality(batch)
  /\ UNCHANGED <<cfgVars, fnVars, healthVars, mpc, fsVars, eligible, retryCount, result, lastAnswer, allNewKeys>>
  /\ UNCHANGED <<trVars, syVars, answered, sent>>

\* A processFiles without the catch: the error of one file ends the run.
OnFileError_Abort(f) ==
  /\ fpc' = [fpc EXCEPT ![f] = "failed"]
  /\ mpc' = "aborted"

\* The catch of processFiles: the error of one file is logged.
OnFileError(f) ==
  /\ fpc' = [fpc EXCEPT ![f] = "failed"]
  /\ UNCHANGED mpc

\* The answer r to the pending request of file f arrives.
Answer(f, r) ==
  /\ mpc = "refactor"
  /\ fpc[f] = "waiting"
  /\ answered' = answered + 1
  /\ lastAnswer' = [lastAnswer EXCEPT ![f] = AnswerKind(r)]
  /\ LET what == Classify(r, retryCount[f])
     IN  \/ /\ what = "retry"
            /\ retryCount' = [retryCount EXCEPT ![f] = @ + 1]
            /\ issued' = [issued EXCEPT ![f] = @ + 1]
            /\ requests' = [requests EXCEPT ![f] =
                              Append(@, Call(@[Len(@)].prompt, retryCount[f] + 1))]
            /\ netCalls' = netCalls + 1
            /\ UNCHANGED <<mpc, fpc, disk, result, allNewKeys>>
         \/ /\ what = "throw"
            /\ OnFileError(f)
            /\ UNCHANGED <<retryCount, issued, requests, netCalls, disk, result, allNewKeys>>
         \/ /\ what = "return"
            /\ fpc' = [fpc EXCEPT ![f] = "done"]
            /\ result' = [result EXCEPT ![f] = Parsed(r)]
            /\ disk' = [disk EXCEPT ![f] = WrittenCode(Parsed(r), @)]
            /\ allNewKeys' = Spread(allNewKeys, AddedKeys(Parsed(r)))
            /\ UNCHANGED <<mpc, retryCount, issued, requests, netCalls>>
  /\ UNCHANGED <<cfgVars, fnVars, healthVars, dicts, hasDict, writes, eligible, batchNo, trVars, syVars, sent>>

\* The last batch has settled: the new keys, if any, are merged into every
\* locale's dictionary and processFiles returns.
FinishProcessFiles ==
  /\ mpc = "refactor"
  /\ Outstanding = {}
  /\ batchNo = Len(Batches(eligible, limit))
  /\ IF DOMAIN allNewKeys # {}
     THEN updateCommonJson(allNewKeys, getAllLocales(additional))
     ELSE UNCHANGED <<dicts, hasDict, writes>>
  /\ mpc' = "translate"
  /\ UNCHANGED <<cfgVars, fnVars, healthVars, disk, eligible, refVars, netCalls, answered, trVars, syVars, sent>>

RefactorNext ==
  \/ StartBatch
  \/ \E f \in Files, r \in RefactorResponses : Answer(f, r)
  \/ FinishProcessFiles

Workers == 1..MaxLimit

NoItem == [path |-> <<>>, value |-> <<>>]

\* No dictionary function has been called on its own.
NoCall == [fn |-> "none", value |-> <<>>, prev |-> <<>>]

\* The locals of processFiles, autoTranslateCommonJson and
\* translateMissingKeys before they are called.
LocalsInit ==
  /\ writes = [l \in Locales |-> <<>>]
  /\ attempt = 1
  /\ errorLines = <<>>
  /\ fixedAnyFile = FALSE
  /\ batchNo = 0
  /\ fpc = [f \in Files |-> "idle"]
  /\ retryCount = [f \in Files |-> 0]
  /\ issued = [f \in Files |-> 0]
  /\ requests = [f \in Files |-> <<>>]
  /\ result = [f \in Files |-> NoResult]
  /\ lastAnswer = [f \in Files |-> "none"]
  /\ allNewKeys = EmptyDict
  /\ tBatchNo = 0
  /\ tpc = [l \in Locales |-> "idle"]
  /\ tQueue = [l \in Locales |-> <<>>]
  /\ translations = [l \in Locales |-> EmptyDict]
  /\ sIdx = 0
  /\ spc = "loop"
  /\ queue = <<>>
  /\ results = <<>>
  /\ failures = <<>>
  /\ wpc = [w \in Workers |-> "idle"]
  /\ witem = [w \in Workers |-> NoItem]
  /\ netCalls = 0
  /\ answered = 0
  /\ sent = {}
  /\ fnArgs = <<>>
  /\ fnOut = NoCall

\* processFiles is called with every file, each a page with a heading.
RefactorInit ==
  /\ script = "makeMultilingual"
  /\ dryRun = FALSE
  /\ apiKey = TRUE
  /\ unattended = TRUE
  /\ limit \in 1..MaxLimit
  /\ additional = SubSeq(LocaleList, 1, NumLocales)
  /\ mpc = "refactor"
  /\ disk = [f \in Files |-> Src_Heading]
  /\ dicts = [l \in Locales |->
                IF l = DEFAULT_LOCALE THEN Dict_EsFlat
                ELSE IF l = "en" THEN Dict_EnWithA
                ELSE EmptyDict]
  /\ hasDict \in {{DEFAULT_LOCALE, "en"}, {DEFAULT_LOCALE, "en", "fr"}}
  /\ disk0 = disk
  /\ dicts0 = dicts
  /\ hasDict0 = hasDict
  /\ badJson = {}
  /\ eligible = [i \in 1..NumFiles |-> i]
  /\ LocalsInit

SpecRefactor == RefactorInit /\ [][RefactorNext]_vars

\* ------------------------------------------------------------------------
\* autoTranslateCommonJson (src/makeMultilingual.js)
\* ------------------------------------------------------------------------
\* The answers of the endpoint to a request that translates one text into
\* locale l: a non-success status, an empty completion, a translation.
\* Without a credential the endpoint refuses every request.
Tr(l, text) == <<l>> \o text

TextAnswer(ok, text) == [ok |-> ok, text |-> text]

TranslateResponses(l, text) ==
  IF apiKey
  THEN {TextAnswer(FALSE, <<>>), TextAnswer(TRUE, <<>>), TextAnswer(TRUE, Tr(l, text))}
  ELSE {TextAnswer(FALSE, <<>>)}

\* openaiTranslateText: throws on a non-success status, else returns
\* translation || text.
openaiTranslateText(r, text) ==
  IF ~r.ok THEN [threw |-> TRUE, text |-> <<>>]
  ELSE [threw |-> FALSE, text |-> IF Len(r.text) > 0 THEN r.text ELSE text]

\* The try/catch of translateLocale around the call: the value itself when
\* the call throws.
TranslatedValue(r, value) ==
  LET got == openaiTranslateText(r, value)
  IN  IF got.threw THEN value ELSE got.text

\* if (!value || typeof value !== 'string') { translations[key] = value; continue; }
NeedsRequest(node) == ~IsObj(node) /\ Len(node.v) > 0

\* The index in keys of the first value that needs a request (Len(keys)+1
\* when there is none).
FirstRequest(defaultData, keys) ==
  CHOOSE i \in 1..(Len(keys) + 1) :
    /\ \A j \in 1..(i - 1) : ~NeedsRequest(defaultData[keys[j]])
    /\ (i = Len(keys) + 1 \/ NeedsRequest(defaultData[keys[i]]))

\* translateLocale runs on from the keys `keys` until it awaits a request
\* or ends: the values before the first request are copied.
RunLocale(defaultData, trans, keys) ==
  LET i == FirstRequest(defaultData, keys)
  IN  [trans |-> Spread(trans, [k \in {keys[j] : j \in 1..(i - 1)} |-> defaultData[k]]),
       keys |-> SubSeq(keys, i, Len(keys)),
       pc |-> IF i <= Len(keys) THEN "waiting" ELSE "done"]

\* allLocales.filter((loc) => loc !== DEFAULT_LOCALE)
additionalLocales == SelectSeq(getAllLocales(additional), LAMBDA loc : loc # DEFAULT_LOCALE)

\* for (let i = 0; i < additionalLocales.length; i += MAX_CONCURRENT_REQUESTS)
\*   localeBatches.push(additionalLocales.slice(i, i + MAX_CONCURRENT_REQUESTS));
LocaleBatches == BatchesFrom(additionalLocales, 0, limit)

TranslatingLocales == {l \in Locales : tpc[l] = "waiting"}

\* An autoTranslateCommonJson that does not wait for processFiles.
TranslateStart_Early ==
  /\ mpc \in {"refactor", "translate"}
  /\ mpc' = IF DEFAULT_LOCALE \in hasDict /\ DOMAIN dicts[DEFAULT_LOCALE] # {}
            THEN "translating"
            ELSE "health"
  /\ UNCHANGED <<cfgVars, fnVars, healthVars, fsVars, eligible, refVars, trVars, syVars, netCalls, answered, sent>>

\* autoTranslateCommonJson is entered: it returns at once when the default
\* dictionary is missing or empty.
TranslateStart ==
  /\ mpc = "translate"
  /\ mpc' = IF DEFAULT_LOCALE \in hasDict /\ DOMAIN dicts[DEFAULT_LOCALE] # {}
            THEN "translating"
            ELSE "health"
  /\ UNCHANGED <<cfgVars, fnVars, healthVars, fsVars, eligible, refVars, trVars, syVars, netCalls, answered, sent>>

\* A batch of locales starts: translateLocale runs for each of them up to
\* its first request.
StartLocaleBatch ==
  /\ mpc = "translating"
  /\ TranslatingLocales = {}
  /\ tBatchNo < Len(LocaleBatches)
  /\ LET batch == Range(LocaleBatches[tBatchNo + 1])
         defaultData == dicts[DEFAULT_LOCALE]
         run(l) == RunLocale(defaultData, EmptyDict, Entries(defaultData))
         asked == {l \in batch : run(l).pc = "waiting"}
     IN  /\ tBatchNo' = tBatchNo + 1
         /\ tpc' = [l \in Locales |-> IF l \in batch THEN run(l).pc ELSE tpc[l]]
         /\ tQueue' = [l \in Locales |-> IF l \in batch THEN run(l).keys ELSE tQueue[l]]
         /\ translations' = [l \in Locales |-> IF l \in batch THEN run(l).trans ELSE translations[l]]
         /\ netCalls' = netCalls + Cardinality(asked)
         /\ sent' = sent \cup {<<l, Head(run(l).keys)>> : l \in asked}
  /\ UNCHANGED <<cfgVars, fnVars, healthVars, mpc, fsVars, eligible, refVars, syVars, answered>>

\* The answer to the pending request of locale l arrives; translateLocale
\* stores the translation, or the original value when the call failed, and
\* runs on.
TranslateAnswer(l, r) ==
  /\ mpc = "translating"
  /\ tpc[l] = "waiting"
  /\ answered' = answered + 1
  /\ LET defaultData == dicts[DEFAULT_LOCALE]
         key == Head(tQueue[l])
         stored == Spread(translations[l],
                          key :> Str(TranslatedValue(r, defaultData[key].v)))
         run == RunLocale(defaultData, stored, Tail(tQueue[l]))
     IN  /\ tpc' = [tpc EXCEPT ![l] = run.pc]
         /\ tQueue' = [tQueue EXCEPT ![l] = run.keys]
         /\ translations' = [translations EXCEPT ![l] = run.trans]
         /\ netCalls' = IF run.pc = "waiting" THEN netCalls + 1 ELSE netCalls
         /\ sent' = IF run.pc = "waiting" THEN sent \cup {<<l, Head(run.keys)>>} ELSE sent
  /\ UNCHANGED <<cfgVars, fnVars, healthVars, mpc, fsVars, eligible, refVars, tBatchNo, syVars>>

\* The dictionary autoTranslateCommonJson writes for a locale:
\* { ...existing, ...translationsPerLocale[locale] }.
MergedTranslations(existing, translated) == Spread(existing, translated)

\* Every batch has settled: each additional locale's dictionary is written.
WriteTranslations ==
  /\ mpc = "translating"
  /\ TranslatingLocales = {}
  /\ tBatchNo = Len(LocaleBatches)
  /\ dicts' = [l \in Locales |->
                 IF l \in Range(additionalLocales)
                 THEN MergedTranslations(IF l \in hasDict THEN dicts[l] ELSE EmptyDict,
                                         translations[l])
                 ELSE dicts[l]]
  /\ hasDict' = hasDict \cup Range(additionalLocales)
  /\ writes' = Written(Range(additionalLocales), Write("autoTranslateCommonJson", 2, <<>>))
  /\ mpc' = "health"
  /\ UNCHANGED <<cfgVars, fnVars, healthVars, disk, eligible, refVars, trVars, syVars, netCalls, answered, sent>>

AutoTranslateNext ==
  \/ TranslateStart
  \/ StartLocaleBatch
  \/ \E l \in TranslatingLocales :
       \E r \in TranslateResponses(l, dicts[DEFAULT_LOCALE][Head(tQueue[l])].v) :
         TranslateAnswer(l, r)
  \/ WriteTranslations

\* ------------------------------------------------------------------------
\* translateMissingKeys (src/unnamed/part_002 and src/nextjs-cleaner.sh)
\* ------------------------------------------------------------------------
\* DEFAULTS.SUPPORTED_LOCALES: the configured locales but the reference.
SUPPORTED_LOCALES == additional

REFERENCE_LOCALE == DEFAULT_LOCALE

\* A dictionary with every leaf translated into locale l.
RECURSIVE TranslatedTree(_, _)
TranslatedTree(d, l) ==
  [k \in DOMAIN d |->
     IF IsObj(d[k]) THEN Obj(TranslatedTree(d[k].kv, l)) ELSE Str(Tr(l, d[k].v))]

\* The answers of the endpoint to the request of part_002's translateWithAI,
\* which carries the whole missing subtree: a non-success status, a
\* completion that is not JSON, or a JSON object: the subtree translated,
\* the subtree translated together with other values for the keys the
\* target already has, or an object without any of the keys.
TreeAnswer(ok, json, data) == [ok |-> ok, json |-> json, data |-> data]

TreeResponses(missing, target, l) ==
  {TreeAnswer(FALSE, FALSE, EmptyDict),
   TreeAnswer(TRUE, FALSE, EmptyDict),
   TreeAnswer(TRUE, TRUE, TranslatedTree(missing, l)),
   TreeAnswer(TRUE, TRUE,
              Spread(TranslatedTree(missing, l),
                     [k \in DOMAIN target |-> Str(<<l, "again">>)])),
   TreeAnswer(TRUE, TRUE, EmptyDict)}

\* part_002's translateWithAI: throws on a non-success status and on a
\* completion JSON.parse rejects, else returns the parsed object.
translateTreeWithAI(r) ==
  IF ~r.ok \/ ~r.json THEN [threw |-> TRUE, data |-> EmptyDict]
  ELSE [threw |-> FALSE, data |-> r.data]

\* nextjs-cleaner.sh's translateWithAI: throws on a non-success status,
\* else returns the completion, trimmed and without surrounding quotes.
translateTextWithAI(r) ==
  IF ~r.ok THEN [threw |-> TRUE, text |-> <<>>]
  ELSE [threw |-> FALSE, text |-> r.text]

\* A pool with one worker more than the limit.
MAX_CONCURRENT_Plus == limit + 1

\* processTranslationsConcurrently: MAX_CONCURRENT =
\* DEFAULTS.MAX_CONCURRENT_REQUESTS, the number of workers started.
MAX_CONCURRENT == limit

\* The locale the loop of translateMissingKeys is at.
CurrentLocale == SUPPORTED_LOCALES[sIdx + 1]

\* Every key of the reference counts as missing.
CurrentMissing_Reference == dicts[REFERENCE_LOCALE]

\* const missing = findMissingKeys(referenceData, targetData);
CurrentMissing == findMissingKeys(dicts[REFERENCE_LOCALE], dicts[CurrentLocale])

DottedPaths(d) == {it.path : it \in Range(flattenObject(d))}

\* The loop takes the next locale.  It is skipped when it is the reference,
\* has no common.json, misses no key, or the run is a dry run; JSON.parse
\* of a common.json that is not JSON throws, and the main function's catch
\* exits the process.  Otherwise
\* part_002 sends one request with the missing subtree, and
\* nextjs-cleaner.sh starts processTranslationsConcurrently: each of the
\* MAX_CONCURRENT_REQUESTS workers takes an item off the queue, if there is
\* one, and sends its request.
SyncLocale ==
  /\ mpc = "sync"
  /\ spc = "loop"
  /\ sIdx < Len(SUPPORTED_LOCALES)
  /\ IF /\ CurrentLocale # REFERENCE_LOCALE
        /\ CurrentLocale \in hasDict
        /\ CurrentLocale \in badJson
     THEN /\ mpc' = "aborted"
          /\ UNCHANGED <<sIdx, spc, queue, results, failures, wpc, witem, netCalls, sent>>
     ELSE IF \/ CurrentLocale = REFERENCE_LOCALE
             \/ CurrentLocale \notin hasDict
             \/ DOMAIN CurrentMissing = {}
             \/ dryRun
     THEN /\ sIdx' = sIdx + 1
          /\ UNCHANGED <<mpc, spc, queue, results, failures, wpc, witem, netCalls, sent>>
     ELSE IF script = "populateBatch"
     THEN /\ spc' = "request"
          /\ netCalls' = netCalls + 1
          /\ sent' = sent \cup {<<CurrentLocale, p>> : p \in DottedPaths(CurrentMissing)}
          /\ UNCHANGED <<mpc, sIdx, queue, results, failures, wpc, witem>>
     ELSE LET items == flattenObject(CurrentMissing)
              n == Min(MAX_CONCURRENT, Len(items))
          IN  /\ spc' = "pool"
              /\ queue' = SubSeq(items, n + 1, Len(items))
              /\ results' = <<>>
              /\ failures' = <<>>
              /\ wpc' = [w \in Workers |->
                           IF w <= n THEN "waiting" ELSE IF w <= MAX_CONCURRENT THEN "done" ELSE "idle"]
              /\ witem' = [w \in Workers |-> IF w <= n THEN items[w] ELSE NoItem]
              /\ netCalls' = netCalls + n
              /\ sent' = sent \cup {<<CurrentLocale, items[w].path>> : w \in 1..n}
              /\ UNCHANGED <<mpc, sIdx>>
  /\ UNCHANGED <<cfgVars, fnVars, healthVars, fsVars, eligible, refVars, trVars, answered>>

\* The file translateMissingKeys writes for a locale.
WriteMerged(l, merged) ==
  /\ dicts' = [dicts EXCEPT ![l] = merged]
  /\ writes' = Written({l}, Write("translateMissingKeys", 2, <<NL>>))
  /\ UNCHANGED <<disk, hasDict>>

\* part_002: the answer to the locale's request arrives.  A parsed object
\* is deep-merged into the target dictionary, which is written; an error is
\* logged and the locale is left as it is.
TreeAnswerArrives(r) ==
  /\ mpc = "sync"
  /\ spc = "request"
  /\ answered' = answered + 1
  /\ LET got == translateTreeWithAI(r)
     IN  IF got.threw
         THEN UNCHANGED fsVars
         ELSE WriteMerged(CurrentLocale, deepMerge(dicts[CurrentLocale], got.data))
  /\ spc' = "loop"
  /\ sIdx' = sIdx + 1
  /\ UNCHANGED <<cfgVars, fnVars, healthVars, mpc, eligible, refVars, trVars, queue, results, failures, wpc, witem, netCalls, sent>>

\* What a worker logs for the answer r to the request of item: the path,
\* when translateWithAI threw.
WorkerFailure(item, r) ==
  IF translateTextWithAI(r).threw THEN <<item.path>> ELSE <<>>

\* A worker that pushes a result also when translateWithAI threw.
WorkerResult_Always(item, r) ==
  <<[path |-> item.path, translated |-> translateTextWithAI(r).text]>>

\* What a worker adds to results for the answer r to the request of item:
\* the translation, or nothing when translateWithAI threw.
WorkerResult(item, r) ==
  LET got == translateTextWithAI(r)
  IN  IF got.threw THEN <<>> ELSE <<[path |-> item.path, translated |-> got.text]>>

\* nextjs-cleaner.sh: the answer to worker w's request arrives; the worker
\* takes the next item off the queue, if any, and sends its request.
WorkerAnswer(w, r) ==
  /\ mpc = "sync"
  /\ spc = "pool"
  /\ wpc[w] = "waiting"
  /\ answered' = answered + 1
  /\ results' = results \o WorkerResult(witem[w], r)
  /\ failures' = failures \o WorkerFailure(witem[w], r)
  /\ IF queue # <<>>
     THEN /\ witem' = [witem EXCEPT ![w] = Head(queue)]
          /\ queue' = Tail(queue)
          /\ netCalls' = netCalls + 1
          /\ sent' = sent \cup {<<CurrentLocale, Head(queue).path>>}
          /\ UNCHANGED wpc
     ELSE /\ wpc' = [wpc EXCEPT ![w] = "done"]
          /\ witem' = [witem EXCEPT ![w] = NoItem]
          /\ UNCHANGED <<queue, netCalls, sent>>
  /\ UNCHANGED <<cfgVars, fnVars, healthVars, mpc, fsVars, eligible, refVars, trVars, sIdx, spc>>

\* Every worker has returned: the results are unflattened, deep-merged into
\* the target dictionary, and the dictionary is written.
PoolDone ==
  /\ mpc = "sync"
  /\ spc = "pool"
  /\ \A w \in Workers : wpc[w] # "waiting"
  /\ WriteMerged(CurrentLocale,
                 deepMerge(dicts[CurrentLocale], unflattenTranslations(results)))
  /\ spc' = "loop"
  /\ sIdx' = sIdx + 1
  /\ wpc' = [w \in Workers |-> "idle"]
  /\ UNCHANGED <<cfgVars, fnVars, healthVars, mpc, eligible, refVars, trVars, queue, results, failures, witem, netCalls, answered, sent>>

\* The loop has handled every locale.
SyncDone ==
  /\ mpc = "sync"
  /\ spc = "loop"
  /\ sIdx = Len(SUPPORTED_LOCALES)
  /\ mpc' = "done"
  /\ UNCHANGED <<cfgVars, fnVars, healthVars, fsVars, eligible, refVars, trVars, syVars, netCalls, answered, sent>>

WaitingWorkers == {w \in Workers : wpc[w] = "waiting"}

SyncNext ==
  \/ SyncLocale
  \/ /\ spc = "request"
     /\ \E r \in TreeResponses(CurrentMissing, dicts[CurrentLocale], CurrentLocale) :
          TreeAnswerArrives(r)
  \/ \E w \in WaitingWorkers :
       \E r \in {TextAnswer(FALSE, <<>>), TextAnswer(TRUE, <<>>),
                 TextAnswer(TRUE, Tr(CurrentLocale, witem[w].value))} :
         WorkerAnswer(w, r)
  \/ PoolDone
  \/ SyncDone

\* ------------------------------------------------------------------------
\* The main functions
\* ------------------------------------------------------------------------
\* The main function of the populateLocales scripts: without a target
\* locale or without a credential the process exits; translateMissingKeys
\* then reads the reference dictionary, and the process exits when the file
\* cannot be read.
PopulateMain ==
  /\ script # "makeMultilingual"
  /\ mpc = "start"
  /\ mpc' = IF \/ Len(SUPPORTED_LOCALES) = 0
               \/ ~apiKey
               \/ REFERENCE_LOCALE \notin hasDict
            THEN "aborted"
            ELSE "sync"
  /\ UNCHANGED <<cfgVars, fnVars, healthVars, fsVars, eligible, refVars, trVars, syVars, netCalls, answered, sent>>

\* stepCreateLocalesFolder: every locale without a common.json gets '{}'.
stepCreateLocalesFolder ==
  /\ script = "makeMultilingual"
  /\ mpc = "start"
  /\ dicts' = [l \in Locales |->
                 IF l \in Range(getAllLocales(additional)) /\ l \notin hasDict
                 THEN EmptyDict
                 ELSE dicts[l]]
  /\ hasDict' = hasDict \cup Range(getAllLocales(additional))
  /\ writes' = Written(Range(getAllLocales(additional)) \ hasDict,
                       Write("stepCreateLocalesFolder", 0, <<>>))
  /\ mpc' = "discover"
  /\ UNCHANGED <<cfgVars, fnVars, healthVars, disk, eligible, refVars, trVars, syVars, netCalls, answered, sent>>

\* getEligibleFiles over the scanned directories: the files whose content
\* passes the heuristic, in traversal order.
getEligibleFiles ==
  SelectSeq([i \in 1..NumFiles |-> i], LAMBDA f : IsEligibleContent(disk[f]))

\* runRefactorAndTranslations, then the test of main on what it returned.
\* Nothing is returned without a credential, in a dry run, and when the
\* user, asked in an attended run, does not confirm; main then goes on to
\* the translation, as it does when no file is eligible.
runRefactorAndTranslations(proceed) ==
  /\ script = "makeMultilingual"
  /\ mpc = "discover"
  /\ LET returned == IF ~apiKey \/ dryRun \/ (~unattended /\ ~proceed)
                     THEN <<>>
                     ELSE getEligibleFiles
     IN  /\ eligible' = returned
         /\ mpc' = IF Len(returned) > 0 THEN "refactor" ELSE "translate"
  /\ UNCHANGED <<cfgVars, fnVars, healthVars, fsVars, refVars, trVars, syVars, netCalls, answered, sent>>

MainNext ==
  \/ stepCreateLocalesFolder
  \/ \E proceed \in BOOLEAN : runRefactorAndTranslations(proceed)
  \/ RefactorNext
  \/ AutoTranslateNext

TranslateNext ==
  \/ AutoTranslateNext
  \/ PopulateMain
  \/ SyncNext

\* A run of main() of makeMultilingual.js: some of the files are pages with
\* a literal heading, the others are refactored already; the last one may
\* call t('a') without importing useTranslations.
MainInit ==
  /\ script = "makeMultilingual"
  /\ dryRun \in BOOLEAN
  /\ apiKey \in BOOLEAN
  /\ unattended \in BOOLEAN
  /\ limit \in 1..MaxLimit
  /\ additional = SubSeq(LocaleList, 1, MainLocales)
  /\ mpc = "start"
  /\ \E k \in 0..MainEligible : \E last \in {Src_Refactored, Code_A} :
       disk = [f \in Files |->
                 IF f <= k THEN Src_Heading
                 ELSE IF f = NumFiles THEN last
                 ELSE Src_Refactored]
  /\ hasDict \in {{}, {DEFAULT_LOCALE}, {DEFAULT_LOCALE, "en"}}
  /\ \E en \in {Dict_EnPartial, Dict_EnFull} :
       dicts = [l \in Locales |->
                  IF l \notin hasDict THEN EmptyDict
                  ELSE IF l = DEFAULT_LOCALE THEN Dict_EsFlat
                  ELSE en]
  /\ disk0 = disk
  /\ dicts0 = dicts
  /\ hasDict0 = hasDict
  /\ badJson = {}
  /\ eligible = <<>>
  /\ LocalsInit

\* A translation run: autoTranslateCommonJson of makeMultilingual.js, or
\* one of the populateLocales scripts from its main function.
TranslateInit ==
  /\ script \in {"makeMultilingual", "populateBatch", "populatePool"}
  /\ dryRun \in (IF script = "makeMultilingual" THEN {FALSE} ELSE BOOLEAN)
  /\ apiKey \in BOOLEAN
  /\ unattended = TRUE
  /\ limit \in 1..MaxLimit
  /\ additional = SubSeq(LocaleList, 1, NumLocales)
  /\ mpc = IF script = "makeMultilingual" THEN "translate" ELSE "start"
  /\ disk = [f \in Files |-> Src_Refactored]
  /\ hasDict \in {{DEFAULT_LOCALE, "en", "fr"}, {DEFAULT_LOCALE, "en"}, {"en", "fr"}}
  /\ \E es \in {Dict_EsFlat, Dict_EsNested, Dict_EsDotted} :
     \E en \in {Dict_EnPartial, Dict_EnFull, Dict_EnWithA} :
       dicts = [l \in Locales |->
                  IF l \notin hasDict THEN EmptyDict
                  ELSE IF l = DEFAULT_LOCALE THEN es
                  ELSE IF l = "en" THEN en
                  ELSE EmptyDict]
  /\ disk0 = disk
  /\ dicts0 = dicts
  /\ hasDict0 = hasDict
  /\ badJson \in (IF script = "makeMultilingual" THEN {{}} ELSE {{}, {"en"}})
  /\ eligible = <<>>
  /\ LocalsInit

Spec == MainInit /\ [][MainNext]_vars

SpecTranslate == TranslateInit /\ [][TranslateNext]_vars

\* ------------------------------------------------------------------------
\* checkProjectHealth and analyzeAndFixErrors (main with BUILD_ONLY)
\* ------------------------------------------------------------------------

MAX_BUILD_ATTEMPTS == 5

\* The file lists extractFullErrorMessages returns for a failed build; 0 is
\* a path that does not exist on disk.
ErrorLists == {<<>>, <<1>>, <<0, 1>>, <<1, 0>>}

\* The answers of the completion endpoint to a fix request: a failure, text
\* that is not JSON, or an object with fixExplanation and updatedCode and
\* no needsUpdate, whose code is whole, fenced, blank or empty.
FixResponses ==
  {Resp_HttpError, Resp_NotJson}
    \cup {Resp(TRUE, "json",
               [needsUpdate |-> FALSE, updatedCode |-> code, translations |-> EmptyDict]) :
            code \in {Code_A, Code_B, Code_Blank, <<>>}}

\* fs.writeFileSync(fullPath, result.updatedCode, 'utf8')
FixWritten(res, old) == res.updatedCode

\* execSync of the build returns: checkProjectHealth returns true.
BuildSucceeds ==
  /\ mpc = "health"
  /\ attempt <= MAX_BUILD_ATTEMPTS
  /\ mpc' = "built"
  /\ UNCHANGED <<cfgVars, fnVars, healthVars, fsVars, eligible, refVars, trVars, syVars, netCalls, answered, sent>>

\* What processLogsWithOpenAI comes to: it throws after a non-success
\* status ("status"), after a completion JSON.parse rejects on the third
\* call ("unparseable") and for an object without an extractedErrors array
\* ("invalid"), and else returns the error lines.
Extraction(threw, lines) == [threw |-> threw, lines |-> lines]

ExtractionOutcomes ==
  {Extraction("none", lines) : lines \in ErrorLists}
    \cup {Extraction(why, <<>>) : why \in {"status", "unparseable", "invalid"}}

\* extractFullErrorMessages: try { return processLogsWithOpenAI(logs); }
\* catch (err) { ...; return []; }.  The promise is returned without await,
\* so the function has left the try block when the promise is rejected and
\* the rejection reaches the caller.
extractFullErrorMessages(outcome) == outcome

\* execSync of the build throws: analyzeAndFixErrors is called with the
\* logs and awaits extractFullErrorMessages.  The error lines it yields
\* are looped over; a rejection leaves analyzeAndFixErrors and
\* checkProjectHealth and reaches the catch of main, which exits the
\* process.
BuildFails(outcome) ==
  /\ mpc = "health"
  /\ attempt <= MAX_BUILD_ATTEMPTS
  /\ LET got == extractFullErrorMessages(outcome)
     IN  IF got.threw # "none"
         THEN /\ mpc' = "aborted"
              /\ UNCHANGED <<errorLines, fixedAnyFile>>
         ELSE /\ mpc' = "fixing"
              /\ errorLines' = got.lines
              /\ fixedAnyFile' = FALSE
  /\ UNCHANGED <<cfgVars, fnVars, attempt, fsVars, eligible, refVars, trVars, syVars, netCalls, answered, sent>>

\* The file of the next error line does not exist: the line is skipped.
SkipAbsentFile ==
  /\ mpc = "fixing"
  /\ errorLines # <<>>
  /\ Head(errorLines) \notin Files
  /\ errorLines' = Tail(errorLines)
  /\ UNCHANGED <<cfgVars, fnVars, attempt, fixedAnyFile, mpc, fsVars, eligible, refVars, trVars, syVars, netCalls, answered, sent>>

\* The file of the next error line is read and processFileWithOpenAI is
\* called with the fix prompt, whose retryCount is attempt - 1; requests
\* keeps the calls made for the fix that is under way.
StartFix ==
  /\ mpc = "fixing"
  /\ errorLines # <<>>
  /\ Head(errorLines) \in Files
  /\ LET f == Head(errorLines)
     IN  /\ fpc[f] # "waiting"
         /\ fpc' = [fpc EXCEPT ![f] = "waiting"]
         /\ retryCount' = [retryCount EXCEPT ![f] = 0]
         /\ issued' = [issued EXCEPT ![f] = @ + 1]
         /\ requests' = [requests EXCEPT ![f] =
                           <<Call(getTaskPrompt("FIX_ERROR", disk[f], attempt - 1), 0)>>]
  /\ netCalls' = netCalls + 1
  /\ UNCHANGED <<cfgVars, fnVars, healthVars, mpc, fsVars, eligible, batchNo, result, lastAnswer, allNewKeys>>
  /\ UNCHANGED <<trVars, syVars, answered, sent>>

\* The answer r to the pending fix request arrives: processFileWithOpenAI
\* retries, throws into the catch of the loop, or returns the object whose
\* updatedCode is written to the file.
FixAnswer(r) ==
  /\ mpc = "fixing"
  /\ errorLines # <<>>
  /\ Head(errorLines) \in Files
  /\ LET f == Head(errorLines)
         what == Classify(r, retryCount[f])
     IN  /\ fpc[f] = "waiting"
         /\ lastAnswer' = [lastAnswer EXCEPT ![f] = AnswerKind(r)]
         /\ \/ /\ what = "retry"
               /\ retryCount' = [retryCount EXCEPT ![f] = @ + 1]
               /\ issued' = [issued EXCEPT ![f] = @ + 1]
               /\ requests' = [requests EXCEPT ![f] =
                                 Append(@, Call(@[Len(@)].prompt, retryCount[f] + 1))]
               /\ netCalls' = netCalls + 1
               /\ UNCHANGED <<fpc, disk, result, healthVars>>
            \/ /\ what = "throw"
               /\ fpc' = [fpc EXCEPT ![f] = "failed"]
               /\ errorLines' = Tail(errorLines)
               /\ UNCHANGED <<retryCount, issued, requests, netCalls, disk, result, attempt, fixedAnyFile>>
            \/ /\ what = "return"
               /\ fpc' = [fpc EXCEPT ![f] = "done"]
               /\ result' = [result EXCEPT ![f] = Parsed(r)]
               /\ disk' = [disk EXCEPT ![f] = FixWritten(Parsed(r), @)]
               /\ fixedAnyFile' = TRUE
               /\ errorLines' = Tail(errorLines)
               /\ UNCHANGED <<retryCount, issued, requests, netCalls, attempt>>
  /\ answered' = answered + 1
  /\ UNCHANGED <<cfgVars, fnVars, mpc, dicts, hasDict, writes, eligible, batchNo, allNewKeys, trVars, syVars, sent>>

\* A checkProjectHealth that does not count its attempts.
FinishFixes_Uncounted ==
  /\ mpc = "fixing"
  /\ errorLines = <<>>
  /\ mpc' = IF fixedAnyFile THEN "health" ELSE "unhealthy"
  /\ UNCHANGED <<cfgVars, fnVars, healthVars, fsVars, eligible, refVars, trVars, syVars, netCalls, answered, sent>>

\* analyzeAndFixErrors returns: without a fix the attempts stop, with one
\* the next attempt follows, and checkProjectHealth returns false after the
\* last.
FinishFixes ==
  /\ mpc = "fixing"
  /\ errorLines = <<>>
  /\ IF fixedAnyFile
     THEN /\ attempt' = attempt + 1
          /\ mpc' = IF attempt + 1 <= MAX_BUILD_ATTEMPTS THEN "health" ELSE "unhealthy"
     ELSE /\ mpc' = "unhealthy"
          /\ UNCHANGED attempt
  /\ UNCHANGED <<cfgVars, fnVars, errorLines, fixedAnyFile, fsVars, eligible, refVars, trVars, syVars, netCalls, answered, sent>>

HealthNext ==
  \/ BuildSucceeds
  \/ \E outcome \in ExtractionOutcomes : BuildFails(outcome)
  \/ SkipAbsentFile
  \/ StartFix
  \/ \E r \in FixResponses : FixAnswer(r)
  \/ FinishFixes

\* main with BUILD_ONLY: the steps before the build are skipped and
\* checkProjectHealth runs on the project as it is.
HealthInit ==
  /\ script = "makeMultilingual"
  /\ dryRun = FALSE
  /\ apiKey = TRUE
  /\ unattended = TRUE
  /\ limit = 1
  /\ additional = <<>>
  /\ mpc = "health"
  /\ disk \in {[f \in Files |-> c] : c \in {Src_Heading, Src_Refactored}}
  /\ dicts = [l \in Locales |-> EmptyDict]
  /\ hasDict = {}
  /\ disk0 = disk
  /\ dicts0 = dicts
  /\ hasDict0 = hasDict
  /\ badJson = {}
  /\ eligible = <<>>
  /\ LocalsInit

SpecHealth == HealthInit /\ [][HealthNext]_vars

\* ------------------------------------------------------------------------
\* Properties of processFiles (SpecRefactor)
\* ------------------------------------------------------------------------
AllLocales == Range(getAllLocales(additional))

\* The dictionary entries that differ from the ones the run started with.
Changed(l, k) ==
  k \in DOMAIN dicts[l] /\ (k \notin DOMAIN dicts0[l] \/ dicts[l][k] # dicts0[l][k])

\* C1: processFiles cuts its input, in order, into batches of at most
\* MAX_CONCURRENT_REQUESTS files and runs the batches one after another:
\* only files of the current batch have a request outstanding, the files of
\* later batches have had none yet, those of earlier batches are settled,
\* and the requests issued and not yet answered, retries included, never
\* exceed the limit.
C1_BatchesWithinLimit ==
  LET batches == Batches(eligible, limit)
  IN  /\ \A b \in 1..Len(batches) : Len(batches[b]) \in 1..limit
      /\ \A i \in 1..Len(eligible) :
           /\ ((i - 1) \div limit) + 1 \in 1..Len(batches)
           /\ ((i - 1) % limit) + 1 \in 1..Len(batches[((i - 1) \div limit) + 1])
           /\ eligible[i] = batches[((i - 1) \div limit) + 1][((i - 1) % limit) + 1]
      /\ netCalls - answered <= limit
      /\ netCalls - answered = Cardinality(Outstanding)
      /\ \A b \in 1..Len(batches) : \A f \in Range(batches[b]) :
           /\ b > batchNo => fpc[f] = "idle" /\ issued[f] = 0
           /\ b < batchNo => fpc[f] \in {"done", "failed"}
           /\ b = batchNo => issued[f] >= 1

\* A full batch is outstanding, one of its requests being a retry, while a
\* later batch waits.
C1_Witness ==
  /\ limit >= 2
  /\ netCalls - answered = limit
  /\ \E f \in Outstanding : retryCount[f] >= 1
  /\ \E f \in Files : fpc[f] = "idle"

\* C3: processFileWithOpenAI sends at most three requests for a file.  A
\* valid answer ends the call with that answer, also when it is the third;
\* a call that fails on an unparseable or invalid answer has sent three.
C3_AtMostThreeRequests ==
  \A f \in Files :
    /\ issued[f] <= 3
    /\ retryCount[f] <= 2
    /\ lastAnswer[f] = "valid" =>
         /\ fpc[f] = "done"
         /\ \E r \in RefactorResponses : AnswerKind(r) = "valid" /\ result[f] = Parsed(r)
    /\ fpc[f] = "done" => lastAnswer[f] = "valid"
    /\ lastAnswer[f] \in {"unparseable", "fenced", "invalid"} =>
         \/ fpc[f] = "waiting" /\ issued[f] <= 3 /\ issued[f] = retryCount[f] + 1
         \/ fpc[f] = "failed" /\ issued[f] = 3

\* One file succeeded with its third answer and another failed after three
\* answers that broke the contract.
C3_Witness ==
  /\ \E f \in Files : fpc[f] = "done" /\ issued[f] = 3
  /\ \E f \in Files :
       fpc[f] = "failed" /\ issued[f] = 3 /\ lastAnswer[f] \in {"unparseable", "fenced", "invalid"}

\* C4: an answer with a non-success status ends the call at once, whatever
\* the retry count: the file has failed and no request was issued after
\* the one that was answered.
C4_TransportErrorNotRetried ==
  \A f \in Files :
    lastAnswer[f] = "status" =>
      /\ fpc[f] = "failed"
      /\ issued[f] = retryCount[f] + 1
      /\ result[f] = NoResult

\* One file failed on a non-success status at its first request and another
\* at a retry, and processFiles has returned.
C4_Witness ==
  /\ mpc = "translate"
  /\ \E f \in Files : lastAnswer[f] = "status" /\ retryCount[f] = 0 /\ issued[f] = 1
  /\ \E f \in Files : lastAnswer[f] = "status" /\ retryCount[f] >= 1

\* C5: the failure of a file does not end processFiles.  Every file of the
\* current and of the earlier batches gets its request, the run can always
\* go on until processFiles returns, and when it has returned every file
\* of the input was asked for and every result that declares an update is
\* applied: its code is on disk and its confirmed keys are in every
\* locale's dictionary.
C5_FailuresDoNotAbort ==
  /\ mpc \in {"refactor", "translate"}
  /\ mpc = "refactor" => ENABLED RefactorNext
  /\ \A b \in 1..batchNo : \A f \in Range(Batches(eligible, limit)[b]) : issued[f] >= 1
  /\ mpc = "translate" =>
       \A f \in Range(eligible) :
         /\ issued[f] >= 1
         /\ fpc[f] \in {"done", "failed"}
         /\ (fpc[f] = "done" /\ result[f].needsUpdate) =>
              /\ disk[f] = result[f].updatedCode
              /\ \A k \in DOMAIN ConfirmedKeys(result[f]) : \A l \in AllLocales :
                   l \in hasDict /\ k \in DOMAIN dicts[l]

\* The first file failed, a file of the same batch and a file of a later
\* batch were updated, and processFiles has returned.
C5_Witness ==
  /\ mpc = "translate"
  /\ limit = 2
  /\ fpc[1] = "failed"
  /\ fpc[2] = "done" /\ result[2].needsUpdate /\ disk[2] # disk0[2]
  /\ fpc[NumFiles] = "done" /\ result[NumFiles].needsUpdate /\ disk[NumFiles] # disk0[NumFiles]

\* C6: a key enters the aggregate, and a dictionary entry is added or
\* changed, only if the key is one a successful response proposed and
\* extractUsedKeys finds it in the updatedCode written for that file.
C6_OnlyUsedKeysPersisted ==
  LET used(k) ==
        \E f \in Files :
          /\ fpc[f] = "done"
          /\ result[f].needsUpdate
          /\ k \in DOMAIN result[f].translations
          /\ disk[f] = result[f].updatedCode
          /\ k \in extractUsedKeys(disk[f])
  IN  /\ \A k \in DOMAIN allNewKeys : used(k)
      /\ \A l \in Locales : \A k \in DOMAIN dicts[l] : Changed(l, k) => used(k)

\* A response proposed the key u, which its code does not use; its code was
\* written, the key a it uses is in the French dictionary and u is not.
C6_Witness ==
  /\ mpc = "translate"
  /\ \E f \in Files :
       /\ fpc[f] = "done"
       /\ result[f].needsUpdate
       /\ K_u \in DOMAIN result[f].translations
       /\ disk[f] = result[f].updatedCode
  /\ K_a \in DOMAIN dicts["fr"]
  /\ K_u \notin DOMAIN dicts["fr"]

\* C7: a response whose needsUpdate is false leaves its file as it was, and
\* none of its keys enters the aggregate or a dictionary: every entry of the
\* aggregate, and every dictionary entry added or changed, carries the text
\* a response with needsUpdate true proposed for it.
C7_NoUpdateLeavesFileAndKeys ==
  LET from(k, text) ==
        \E f \in Files :
          /\ fpc[f] = "done"
          /\ result[f].needsUpdate
          /\ k \in DOMAIN result[f].translations
          /\ result[f].translations[k] = text
  IN  /\ \A f \in Files :
           (fpc[f] = "done" /\ ~result[f].needsUpdate) => disk[f] = disk0[f]
      /\ \A k \in DOMAIN allNewKeys : from(k, allNewKeys[k])
      /\ \A l \in Locales : \A k \in DOMAIN dicts[l] :
           Changed(l, k) => dicts[l][k].t = "str" /\ from(k, dicts[l][k].v)

\* processFiles has returned; one response with needsUpdate false proposed
\* a key that its code uses, and no dictionary has changed.
C7_Witness ==
  /\ mpc = "translate"
  /\ \E f \in Files :
       /\ fpc[f] = "done"
       /\ ~result[f].needsUpdate
       /\ K_a \in DOMAIN result[f].translations
       /\ K_a \in extractUsedKeys(result[f].updatedCode)
  /\ dicts = dicts0
  /\ disk = disk0

\* ------------------------------------------------------------------------
\* Properties of the translation pass (SpecTranslate) and of main (Spec)
\* ------------------------------------------------------------------------
\* C2: during the translation pass at most `limit` translation requests
\* are issued and not yet answered, in autoTranslateCommonJson (at most
\* `limit` locales translate at a time, each awaiting one request) and in
\* processTranslationsConcurrently (at most `limit` workers, each awaiting
\* one request); part_002 has one request at a time.
C2_TranslationsWithinLimit ==
  /\ netCalls - answered <= limit
  /\ Cardinality(TranslatingLocales) <= limit
  /\ Cardinality(WaitingWorkers) <= limit
  /\ netCalls - answered =
       Cardinality(TranslatingLocales) + Cardinality(WaitingWorkers)
         + (IF spc = "request" THEN 1 ELSE 0)
  /\ \A b \in 1..Len(LocaleBatches) : Len(LocaleBatches[b]) \in 1..limit

\* The pool has as many requests outstanding as the limit allows, one of
\* them taken off the queue after an earlier answer, and items still queue.
C2_Witness ==
  /\ script = "populatePool"
  /\ limit >= 2
  /\ netCalls - answered = limit
  /\ answered >= 1
  /\ queue # <<>>

\* C8: a sync sends for translation only keys that the target dictionary
\* misses, and every leaf the target dictionary had at the start keeps its
\* value.
C8_ExistingTranslationsKept ==
  \A l \in Range(additional) :
    /\ \A p \in sent : p[1] = l => p[2] \notin DottedPaths(dicts0[l])
    /\ l \in hasDict0 =>
         \A p \in LeafPaths(dicts0[l]) :
           NodeAt(Obj(dicts[l]), p) = NodeAt(Obj(dicts0[l]), p)

\* C9: a dry run issues no request and leaves every source file and every
\* locale dictionary as it was.
C9_DryRunChangesNothing ==
  dryRun =>
    /\ netCalls = 0
    /\ disk = disk0
    /\ dicts = dicts0
    /\ hasDict = hasDict0

\* C10: after the per-leaf sync of a locale, every leaf of the reference
\* that the target missed is a leaf of the target, holding its translation
\* or the reference text.
C10_FailedLeafFallsBack ==
  \A l \in Range(additional) :
    LET synced ==
          \/ script = "makeMultilingual" /\ mpc = "health" /\ tBatchNo >= 1
          \/ /\ script = "populatePool"
             /\ mpc \in {"sync", "done"}
             /\ ~dryRun
             /\ l \in hasDict0
             /\ \E i \in 1..sIdx : SUPPORTED_LOCALES[i] = l
        reference == dicts0[REFERENCE_LOCALE]
    IN  synced =>
          \A p \in LeafPaths(reference) :
            ~HasPath(dicts0[l], p) =>
              /\ NodeAt(Obj(dicts[l]), p).t = "str"
              /\ NodeAt(Obj(dicts[l]), p).v \in
                   {Tr(l, NodeAt(Obj(reference), p).v), NodeAt(Obj(reference), p).v, <<>>}

\* C11: a run with a configuration error (no credential, no additional
\* locale, or no reference dictionary file) issues no request and writes no
\* source file and no dictionary.
C11_ConfigErrorChangesNothing ==
  (~apiKey \/ Len(additional) = 0 \/ DEFAULT_LOCALE \notin hasDict0) =>
    /\ netCalls = 0
    /\ disk = disk0
    /\ dicts = dicts0
    /\ hasDict = hasDict0

\* ------------------------------------------------------------------------
\* The dictionary functions called on their own (SpecFunctions)
\* ------------------------------------------------------------------------
\* The leaf values of the argument dictionaries: the empty string and two
\* texts.
LeafTexts == {<<>>, <<"x">>, <<"y">>}

\* The dictionaries with keys among `keys` and values among `nodes`.
DictsOver(keys, nodes) == UNION {[dom -> nodes] : dom \in SUBSET keys}

Leaves == {Str(v) : v \in LeafTexts}

\* The argument dictionaries: up to two keys, each with a leaf or with a
\* nested dictionary of up to two leaves.
InnerDicts == DictsOver({K_a, K_b}, Leaves)

ArgDicts == DictsOver({K_a, K_b}, Leaves \cup {Obj(d) : d \in InnerDicts})

\* The arguments of flattenObject: a key may hold the separator or be
\* empty.
FlattenArgs ==
  DictsOver({K_a, K_b}, Leaves \cup {Obj(d) : d \in InnerDicts})
    \cup DictsOver({K_a, K_dot}, Leaves \cup {Obj(d) : d \in InnerDicts})
    \cup DictsOver({K_a, K_empty}, Leaves \cup {Obj(d) : d \in InnerDicts})

progVars ==
  <<cfgVars, healthVars, mpc, fsVars, eligible, refVars, trVars, syVars, netCalls, answered, sent>>

Returned(fn, value, prev) == [fn |-> fn, value |-> value, prev |-> prev]

\* findMissingKeys(reference, target) is called.
CallFindMissingKeys ==
  /\ script = "library"
  /\ fnOut.fn = NoCall.fn
  /\ Len(fnArgs) = 2
  /\ fnOut' = Returned("findMissingKeys", findMissingKeys(fnArgs[1], fnArgs[2]), <<>>)
  /\ UNCHANGED <<progVars, fnArgs>>

\* deepMerge(target, source) is called.
CallDeepMerge ==
  /\ script = "library"
  /\ fnOut.fn = NoCall.fn
  /\ Len(fnArgs) = 2
  /\ fnOut' = Returned("deepMerge", deepMerge(fnArgs[1], fnArgs[2]), <<>>)
  /\ UNCHANGED <<progVars, fnArgs>>

\* deepMerge is called once more, with the same target and the dictionary
\* the first call returned as the source.
CallDeepMergeAgain ==
  /\ script = "library"
  /\ fnOut.fn = "deepMerge"
  /\ fnOut' = Returned("deepMergeAgain", deepMerge(fnArgs[1], fnOut.value), fnOut.value)
  /\ UNCHANGED <<progVars, fnArgs>>

\* flattenObject(obj) is called.
CallFlattenObject ==
  /\ script = "library"
  /\ fnOut.fn = NoCall.fn
  /\ Len(fnArgs) = 1
  /\ fnOut' = Returned("flattenObject", flattenObject(fnArgs[1]), <<>>)
  /\ UNCHANGED <<progVars, fnArgs>>

\* The results a pool hands to unflattenTranslations when every item comes
\* back with its own value as the translation.
AsTranslated(items) ==
  [i \in 1..Len(items) |-> [path |-> items[i].path, translated |-> items[i].value]]

\* unflattenTranslations is called on the flattened entries.
CallUnflattenTranslations ==
  /\ script = "library"
  /\ fnOut.fn = "flattenObject"
  /\ fnOut' = Returned("unflattenTranslations",
                       unflattenTranslations(AsTranslated(fnOut.value)), fnOut.value)
  /\ UNCHANGED <<progVars, fnArgs>>

\* The texts extractUsedKeys is called on: a call with a quoted key, alone
\* or as the end of a longer name or of a comment, with the closing
\* parenthesis after the key or after a second argument or a space; and
\* the code of the sample responses.
CallPrefixes == {<<>>, <<"{">>, <<"f", "o", "r", "m", "a">>, <<"/", "/", SP>>}

CallSuffixes == {<<")">>, <<",", SP, "n", ")">>, <<SP, ")">>}

CallTexts ==
  {pre \o <<"t", "(", q1>> \o key \o <<q2>> \o suf :
     pre \in CallPrefixes, q1 \in Quotes, q2 \in Quotes,
     key \in {K_a, K_b}, suf \in CallSuffixes}

CodeTexts ==
  CallTexts \cup {Code_A, Code_B_Bare, Src_Heading, Src_Refactored}
    \cup {x \o <<NL>> \o Code_A : x \in CallTexts}

\* extractUsedKeys(code) is called: the scan starts at the first character
\* with an empty set of keys.
CallExtractUsedKeys ==
  /\ script = "library"
  /\ fnOut.fn = NoCall.fn
  /\ Len(fnArgs) = 3
  /\ fnOut' = Returned("extractUsedKeys",
                       fnArgs[3] \cup ScanKeys(fnArgs[1], fnArgs[2]), <<>>)
  /\ UNCHANGED <<progVars, fnArgs>>

\* ------------------------------------------------------------------------
\* parseArgs -c and the batch loop of processFiles, one iteration at a time
\* ------------------------------------------------------------------------
\* A JavaScript number: an integer or NaN.
Num(n) == [nan |-> FALSE, n |-> n]

NaN == [nan |-> TRUE, n |-> 0]

DigitValue ==
  ("0" :> 0) @@ ("1" :> 1) @@ ("2" :> 2) @@ ("3" :> 3) @@ ("4" :> 4) @@
  ("5" :> 5) @@ ("6" :> 6) @@ ("7" :> 7) @@ ("8" :> 8) @@ ("9" :> 9)

\* The value of the leading decimal digits of s from position i on, after
\* the value acc of the digits before.
RECURSIVE DigitsFrom(_, _, _)
DigitsFrom(s, i, acc) ==
  IF i <= Len(s) /\ s[i] \in DOMAIN DigitValue
  THEN DigitsFrom(s, i + 1, 10 * acc + DigitValue[s[i]])
  ELSE acc

\* parseInt(text, 10): an optional sign and the leading digits; NaN when
\* there is no digit, and for the undefined of a missing argument.
parseInt(text) ==
  LET signed == Len(text) > 0 /\ text[1] \in {"-", "+"}
      first == IF signed THEN 2 ELSE 1
  IN  IF first > Len(text) \/ text[first] \notin DOMAIN DigitValue THEN NaN
      ELSE IF signed /\ text[1] = "-" THEN Num(0 - DigitsFrom(text, first, 0))
      ELSE Num(DigitsFrom(text, first, 0))

\* a + b and a < b on numbers.
JsAdd(a, b) == IF a.nan \/ b.nan THEN NaN ELSE Num(a.n + b.n)

JsLess(a, b) == ~a.nan /\ ~b.nan /\ a.n < b.n

\* The index Array.prototype.slice makes of an argument: NaN is 0, a
\* negative number counts from the end, and the index stays within 0..len.
SliceIndex(a, len) ==
  IF a.nan THEN 0
  ELSE IF a.n < 0 THEN (IF len + a.n < 0 THEN 0 ELSE len + a.n)
  ELSE Min(a.n, len)

\* files.slice(start, end) for numbers start and end.
JsSlice(files, start, end) ==
  SubSeq(files, SliceIndex(start, Len(files)) + 1, SliceIndex(end, Len(files)))

\* The texts given after -c; the empty text stands for an argument that is
\* not there.
ConcurrencyArgs ==
  {<<"1">>, <<"2">>, <<"3">>, <<"1", "0">>, <<"0">>, <<"-", "1">>,
   <<"-", "2">>, <<"a", "b", "c">>, <<"2", "x">>, <<>>}

FileLists == {SubSeq(<<1, 2, 3>>, 1, n) : n \in 0..3}

\* Iterations of the batch loop after which the model stops following it.
MaxIterations == 6

\* processFiles(files) is called after -c text: i = 0 and batches = [].
CallProcessFilesBatches ==
  /\ script = "library"
  /\ fnOut.fn = NoCall.fn
  /\ Len(fnArgs) = 4
  /\ fnOut' = Returned("batching", [i |-> Num(0), batches |-> <<>>], <<>>)
  /\ UNCHANGED <<progVars, fnArgs>>

\* i < files.length
BatchLoopTest(i, files, n) == JsLess(i, Num(Len(files)))

\* One pass of for (let i = 0; i < files.length; i += MAX_CONCURRENT_REQUESTS):
\* the test, and then either the push of files.slice(i, i + n) and the
\* increment, or the end of the loop.
BatchLoopStep ==
  /\ script = "library"
  /\ fnOut.fn = "batching"
  /\ LET files == fnArgs[3]
         n == parseInt(fnArgs[2])
         i == fnOut.value.i
         batches == fnOut.value.batches
     IN  IF BatchLoopTest(i, files, n)
         THEN /\ Len(batches) < MaxIterations
              /\ fnOut' = Returned("batching",
                                   [i |-> JsAdd(i, n),
                                    batches |-> Append(batches, JsSlice(files, i, JsAdd(i, n)))],
                                   <<>>)
         ELSE fnOut' = Returned("batches", fnOut.value, <<>>)
  /\ UNCHANGED <<progVars, fnArgs>>

FunctionsNext ==
  \/ CallFindMissingKeys
  \/ CallDeepMerge
  \/ CallDeepMergeAgain
  \/ CallFlattenObject
  \/ CallUnflattenTranslations
  \/ CallExtractUsedKeys
  \/ CallProcessFilesBatches
  \/ BatchLoopStep

\* A dictionary function is about to be called with arguments of the
\* bounded sets.
FunctionsInit ==
  /\ script = "library"
  /\ dryRun = FALSE
  /\ apiKey = TRUE
  /\ unattended = TRUE
  /\ limit = 1
  /\ additional = <<>>
  /\ mpc = "start"
  /\ disk = [f \in Files |-> Src_Refactored]
  /\ dicts = [l \in Locales |-> EmptyDict]
  /\ hasDict = {}
  /\ disk0 = disk
  /\ dicts0 = dicts
  /\ hasDict0 = hasDict
  /\ badJson = {}
  /\ eligible = <<>>
  /\ writes = [l \in Locales |-> <<>>]
  /\ batchNo = 0
  /\ fpc = [f \in Files |-> "idle"]
  /\ retryCount = [f \in Files |-> 0]
  /\ issued = [f \in Files |-> 0]
  /\ requests = [f \in Files |-> <<>>]
  /\ result = [f \in Files |-> NoResult]
  /\ lastAnswer = [f \in Files |-> "none"]
  /\ allNewKeys = EmptyDict
  /\ tBatchNo = 0
  /\ tpc = [l \in Locales |-> "idle"]
  /\ tQueue = [l \in Locales |-> <<>>]
  /\ translations = [l \in Locales |-> EmptyDict]
  /\ sIdx = 0
  /\ spc = "loop"
  /\ queue = <<>>
  /\ results = <<>>
  /\ failures = <<>>
  /\ wpc = [w \in Workers |-> "idle"]
  /\ witem = [w \in Workers |-> NoItem]
  /\ netCalls = 0
  /\ answered = 0
  /\ sent = {}
  /\ attempt = 1
  /\ errorLines = <<>>
  /\ fixedAnyFile = FALSE
  /\ fnArgs \in {<<x>> : x \in FlattenArgs} \cup (ArgDicts \X ArgDicts)
                 \cup {<<code, 1, {}>> : code \in CodeTexts}
                 \cup {<<"-c", text, files, "processFiles">> :
                         text \in ConcurrencyArgs, files \in FileLists}
  /\ fnOut = NoCall

SpecFunctions == FunctionsInit /\ [][FunctionsNext]_vars

\* The paths of a dictionary that lead to a nested dictionary.
RECURSIVE MappingPaths(_)
MappingPaths(d) ==
  UNION {IF IsObj(d[k])
         THEN {<<k>>} \cup {<<k>> \o p : p \in MappingPaths(d[k].kv)}
         ELSE {} : k \in DOMAIN d}

\* C12, as claimed: findMissingKeys(reference, target) is empty exactly when
\* every leaf path of reference exists in target.
C12_EmptyIffLeafPathsExist ==
  fnOut.fn = "findMissingKeys" =>
    ((fnOut.value = EmptyDict) <=>
       \A p \in LeafPaths(fnArgs[1]) : HasPath(fnArgs[2], p))

\* C12, amended: findMissingKeys(reference, target) is empty exactly when
\* every path of reference, to a leaf or to a nested dictionary, exists in
\* target.
C12_EmptyIffKeyPathsExist ==
  fnOut.fn = "findMissingKeys" =>
    ((fnOut.value = EmptyDict) <=>
       \A p \in LeafPaths(fnArgs[1]) \cup MappingPaths(fnArgs[1]) :
         HasPath(fnArgs[2], p))

\* findMissingKeys returned the empty dictionary for a reference with a
\* nested leaf and a target that holds more than the reference.
C12_Witness ==
  /\ fnOut.fn = "findMissingKeys"
  /\ fnOut.value = EmptyDict
  /\ \E p \in LeafPaths(fnArgs[1]) : Len(p) = 2
  /\ fnArgs[1] # fnArgs[2]

\* C13: deepMerge is idempotent and right-biased.  Merging the result of
\* deepMerge(X, Y) into X again gives the same dictionary; a leaf of the
\* source at a path the target has is the value at that path afterwards; a
\* leaf of the target that the source does not mention (the source has
\* neither its path nor a leaf above it) keeps its value, nested mappings
\* being merged key by key; deepMerge({a:1,b:2},{b:3,c:4}) = {a:1,b:3,c:4}.
C13_DeepMergeIdempotentRightBiased ==
  /\ fnOut.fn = "deepMergeAgain" => fnOut.value = fnOut.prev
  /\ fnOut.fn = "deepMerge" =>
       LET X == fnArgs[1]
           Y == fnArgs[2]
           M == fnOut.value
       IN  /\ \A p \in LeafPaths(Y) :
                HasPath(X, p) => NodeAt(Obj(M), p) = NodeAt(Obj(Y), p)
           /\ \A p \in LeafPaths(X) :
                (/\ ~HasPath(Y, p)
                 /\ \A i \in 1..(Len(p) - 1) : NodeAt(Obj(Y), SubSeq(p, 1, i)).t # "str")
                  => NodeAt(Obj(M), p) = NodeAt(Obj(X), p)
  /\ deepMerge((K_a :> Str(<<"1">>)) @@ (K_b :> Str(<<"2">>)),
               (K_b :> Str(<<"3">>)) @@ (<<"c">> :> Str(<<"4">>)))
       = (K_a :> Str(<<"1">>)) @@ (K_b :> Str(<<"3">>)) @@ (<<"c">> :> Str(<<"4">>))

\* deepMerge was called twice on a target and a source that hold the same
\* nested mapping with different keys and the same leaf with different
\* values.
C13_Witness ==
  /\ fnOut.fn = "deepMergeAgain"
  /\ K_a \in DOMAIN fnArgs[1] /\ K_a \in DOMAIN fnArgs[2]
  /\ IsObj(fnArgs[1][K_a]) /\ IsObj(fnArgs[2][K_a])
  /\ DOMAIN fnArgs[1][K_a].kv = {K_a}
  /\ DOMAIN fnArgs[2][K_a].kv = {K_b}
  /\ K_b \in DOMAIN fnArgs[1] /\ K_b \in DOMAIN fnArgs[2]
  /\ ~IsObj(fnArgs[1][K_b]) /\ ~IsObj(fnArgs[2][K_b])
  /\ fnArgs[1][K_b] # fnArgs[2][K_b]
  /\ DOMAIN fnOut.value[K_a].kv = {K_a, K_b}

\* The keys on the paths of a dictionary.
KeysOf(d) == UNION {Range(p) : p \in LeafPaths(d) \cup MappingPaths(d)}

NoSeparatorInKeys(d) == \A k \in KeysOf(d) : "." \notin Range(k)

NoEmptyKey(d) == K_empty \notin KeysOf(d)

NoEmptyMapping(d) == \A p \in MappingPaths(d) : NodeAt(Obj(d), p).kv # EmptyDict

RECURSIVE AggregateInOrder(_, _)
AggregateInOrder(res, order) ==
  IF order = <<>> THEN EmptyDict
  ELSE LET f == order[Len(order)]
           before == AggregateInOrder(res, SubSeq(order, 1, Len(order) - 1))
       IN  IF res[f] # NoResult THEN Spread(before, AddedKeys(res[f])) ELSE before

\* C15: when processFiles has returned, the aggregate and the dictionaries
\* written from it are a function of the files' results alone: they are
\* what the results give when taken in the order of the files, whatever
\* the order in which the answers arrived.
C15_AggregateIndependentOfOrder ==
  mpc = "translate" =>
    LET expected == AggregateInOrder(result, eligible)
    IN  /\ allNewKeys = expected
        /\ \A l \in AllLocales : \A k \in DOMAIN expected :
             k \in DOMAIN dicts[l] /\ dicts[l][k] = Str(expected[k])

\* ------------------------------------------------------------------------
\* Claims about the worker pool of processTranslationsConcurrently
\* ------------------------------------------------------------------------
\* The orders in which the entries of a sequence can be arranged.
Arrangements(s) ==
  {[i \in 1..Len(s) |-> s[p[i]]] :
     p \in {q \in [1..Len(s) -> 1..Len(s)] : \A i, j \in 1..Len(s) : q[i] = q[j] => i = j}}

\* The results s are answers to some of the items, in the order of the
\* items: what the pool collects when the requests complete in the order
\* in which they were sent.
InItemOrder(s, items, l) ==
  \E m \in [1..Len(s) -> 1..Len(items)] :
    /\ \A i, j \in 1..Len(s) : i < j => m[i] < m[j]
    /\ \A i \in 1..Len(s) :
         /\ s[i].path = items[m[i]].path
         /\ s[i].translated \in {<<>>, Tr(l, items[m[i]].value)}

\* C16: in the worker-pool translation of a locale, the dictionary written
\* does not depend on the order in which the requests complete: with the
\* same answers collected, it is the dictionary written when the requests
\* complete in the order of the items.
C16_WrittenIndependentOfCompletionOrder ==
  [][(mpc = "sync" /\ spc = "pool" /\ spc' = "loop") =>
       \A s \in Arrangements(results) :
         InItemOrder(s, flattenObject(CurrentMissing), CurrentLocale) =>
           dicts'[CurrentLocale] =
             deepMerge(dicts[CurrentLocale], unflattenTranslations(s))]_vars

\* ------------------------------------------------------------------------
\* Claims about a second run of main (src/makeMultilingual.js)
\* ------------------------------------------------------------------------
\* No file of the tree passes the eligibility heuristic when the run starts.
FullyRefactored == \A f \in Files : ~IsEligibleContent(disk0[f])

\* Every configured locale has a dictionary when the run starts, and none
\* misses a key of the reference dictionary.
FullyTranslated ==
  \A l \in AllLocales :
    /\ l \in hasDict0
    /\ DOMAIN findMissingKeys(dicts0[DEFAULT_LOCALE], dicts0[l]) = {}

\* C17: a run of the pipeline on a tree that is fully refactored and fully
\* translated is a no-op: no file is eligible, no request is issued, and no
\* source file and no dictionary is changed.
C17_RerunIsNoOp ==
  (FullyRefactored /\ FullyTranslated) =>
    /\ eligible = <<>>
    /\ netCalls = 0
    /\ disk = disk0
    /\ dicts = dicts0
    /\ hasDict = hasDict0

\* ------------------------------------------------------------------------
\* Claims about the loop of translateMissingKeys
\* ------------------------------------------------------------------------
\* The requests sent for locale l.
SentFor(l) == {s \in sent : s[1] = l}

\* Locale l has a dictionary that misses no key of the reference when the
\* run starts.
UpToDate(l) ==
  /\ l \in hasDict0
  /\ REFERENCE_LOCALE \in hasDict0
  /\ DOMAIN findMissingKeys(dicts0[REFERENCE_LOCALE], dicts0[l]) = {}

\* C18: in translateMissingKeys a non-reference locale whose dictionary
\* misses no key of the reference gets no request and keeps its dictionary,
\* and a locale without a dictionary file gets no request and no file.
C18_UpToDateOrAbsentLocaleUntouched ==
  script \in {"populateBatch", "populatePool"} =>
    \A l \in Range(SUPPORTED_LOCALES) \ {REFERENCE_LOCALE} :
      /\ UpToDate(l) =>
           /\ SentFor(l) = {}
           /\ dicts[l] = dicts0[l]
      /\ l \notin hasDict0 =>
           /\ SentFor(l) = {}
           /\ l \notin hasDict
           /\ dicts[l] = dicts0[l]

\* The loop has passed a locale that misses no key and a locale without a
\* dictionary file, and has sent requests for neither.
C18_Witness ==
  /\ script \in {"populateBatch", "populatePool"}
  /\ mpc = "done"
  /\ ~dryRun
  /\ UpToDate("en")
  /\ "fr" \notin hasDict0
  /\ sIdx = Len(SUPPORTED_LOCALES)
  /\ netCalls = 0

\* ------------------------------------------------------------------------
\* Claims about updateCommonJson (src/makeMultilingual.js)
\* ------------------------------------------------------------------------
\* C19: when the aggregate of processFiles is not empty, after
\* updateCommonJson every configured locale, the default locale included,
\* has a dictionary that holds every confirmed key of every applied result,
\* with the text of the aggregate, which is the original text some result
\* gives for the key.
C19_ConfirmedKeysInEveryLocale ==
  (mpc = "translate" /\ DOMAIN allNewKeys # {}) =>
    \A l \in AllLocales :
      /\ l \in hasDict
      /\ \A f \in Files : \A k \in DOMAIN AddedKeys(result[f]) :
           /\ k \in DOMAIN dicts[l]
           /\ dicts[l][k] = Str(allNewKeys[k])
           /\ \E g \in Files :
                /\ k \in DOMAIN AddedKeys(result[g])
                /\ allNewKeys[k] = AddedKeys(result[g])[k]

\* processFiles has returned with two confirmed keys; fr had no dictionary
\* and the default locale's dictionary held neither key.
C19_Witness ==
  /\ mpc = "translate"
  /\ {K_a, K_b} \subseteq DOMAIN allNewKeys
  /\ "fr" \notin hasDict0
  /\ K_b \in DOMAIN dicts["fr"]
  /\ K_a \notin DOMAIN dicts0[DEFAULT_LOCALE]
  /\ K_a \in DOMAIN dicts[DEFAULT_LOCALE]


\* C20: merging into a locale's dictionary is additive: every key a
\* dictionary held when the run started is still in it, with the value it
\* had, after updateCommonJson has merged the new keys and after the
\* translations have been merged.
C20_MergeKeepsExistingEntries ==
  \A l \in hasDict0 : \A k \in DOMAIN dicts0[l] :
    /\ l \in hasDict
    /\ k \in DOMAIN dicts[l]
    /\ dicts[l][k] = dicts0[l][k]


\* Locale l has a dictionary JSON.parse accepts, and it misses a key of the
\* reference when the run starts.
HasMissingKeys(l) ==
  /\ l \in hasDict0
  /\ l \notin badJson
  /\ DOMAIN findMissingKeys(dicts0[REFERENCE_LOCALE], dicts0[l]) # {}

\* C21: failures are isolated per locale: when translateMissingKeys has
\* ended, whatever failed for one locale (a translation request, or reading
\* and parsing its dictionary), requests have been sent for every other
\* locale that misses keys.
C21_LocaleFailuresIsolated ==
  (/\ script \in {"populateBatch", "populatePool"}
   /\ mpc \in {"done", "aborted"}
   /\ apiKey /\ ~dryRun /\ REFERENCE_LOCALE \in hasDict0) =>
    \A l \in Range(SUPPORTED_LOCALES) \ {REFERENCE_LOCALE} :
      HasMissingKeys(l) => SentFor(l) # {}


\* ------------------------------------------------------------------------
\* Claims about the batch translation of part_002
\* ------------------------------------------------------------------------
\* The key paths of a dictionary, leaves and nested dictionaries alike.
KeyPaths(d) == LeafPaths(d) \cup MappingPaths(d)

\* C22: in batch translation the returned structure is merged into the
\* target dictionary only if its key set is the requested one: an answer
\* with other key paths than the missing subtree leaves the dictionary as
\* it was.
C22_MismatchedAnswerNotMerged ==
  [][(mpc = "sync" /\ spc = "request") =>
       \A r \in TreeResponses(CurrentMissing, dicts[CurrentLocale], CurrentLocale) :
         (/\ TreeAnswerArrives(r)
          /\ ~translateTreeWithAI(r).threw
          /\ KeyPaths(r.data) # KeyPaths(CurrentMissing)) =>
           dicts' = dicts]_vars


\* ------------------------------------------------------------------------
\* Claims about the pipeline driver, main (src/makeMultilingual.js)
\* ------------------------------------------------------------------------
\* The stages of main in the order of its statements: locale folders,
\* discovery, refactor with the merge of the new keys at its end,
\* translation, and the end of the pipeline.
StageNo(pc) ==
  CASE pc = "start" -> 0
    [] pc = "discover" -> 1
    [] pc = "refactor" -> 2
    [] pc = "translate" -> 3
    [] pc = "translating" -> 4
    [] pc = "health" -> 5
    [] pc = "aborted" -> 5

\* The refactor requests issued so far.
RECURSIVE SumIssued(_)
SumIssued(fs) ==
  IF fs = {} THEN 0
  ELSE LET f == CHOOSE x \in fs : TRUE IN issued[f] + SumIssued(fs \ {f})

\* C23: main is a linear state machine: no step goes back to an earlier
\* stage, a run that can take no step has reached its end, no refactor
\* request is issued once processFiles has merged the new keys, and no
\* translation request is issued while a refactor request is pending or
\* before the new keys are in every locale's dictionary.
C23_LinearPipeline ==
  /\ [][/\ StageNo(mpc') >= StageNo(mpc)
        /\ StageNo(mpc) >= 3 => issued' = issued
        /\ sent' # sent =>
             /\ mpc = "translating"
             /\ \A f \in Files : fpc[f] # "waiting"
             /\ \A l \in AllLocales : \A k \in DOMAIN allNewKeys :
                  l \in hasDict /\ k \in DOMAIN dicts[l]]_vars
  /\ [](~ENABLED MainNext => mpc \in {"health", "aborted"})

\* A run has discovered a file, refactored it with a retry, merged a new
\* key, translated, and ended.
C23_Witness ==
  /\ mpc = "health"
  /\ SumIssued(Files) >= 2
  /\ DOMAIN allNewKeys # {}
  /\ sent # {}
  /\ dicts # dicts0


\* ------------------------------------------------------------------------
\* Claims about getEligibleFiles (src/makeMultilingual.js)
\* ------------------------------------------------------------------------
\* The content references the translation-lookup API: it holds
\* useTranslation, or a call t(' or t(".
UseTranslationWord == SubSeq(UseTranslationsWord, 1, Len(UseTranslationsWord) - 1)

ReferencesLookupApi(content) ==
  \/ Includes(content, UseTranslationWord)
  \/ \E q \in Quotes : Includes(content, <<"t", "(", q>>)

\* C24: discovery returns exactly the files that match the markup
\* heuristic and do not reference the translation-lookup API: a file that
\* uses useTranslation(s) or contains a t('...') call is never eligible.
C24_EligibleFilesExact ==
  (mpc = "refactor" /\ batchNo = 0) =>
    \A f \in Files :
      f \in Range(eligible) <=>
        (HasMarkup(disk0[f]) /\ ~ReferencesLookupApi(disk0[f]))


\* ------------------------------------------------------------------------
\* Claims about extractUsedKeys
\* ------------------------------------------------------------------------
\* A call of the lookup function t with a quoted key starts at index i of
\* code: the name is t and not the end of a longer name, the key is quoted
\* by one kind of quote, and the argument ends there or another follows.
LookupCallAt(code, i) ==
  /\ i + 5 <= Len(code)
  /\ code[i] = "t"
  /\ (i = 1 \/ code[i - 1] \notin Letters)
  /\ code[i + 1] = "("
  /\ code[i + 2] \in Quotes
  /\ LET j == KeyEnd(code, i)
     IN  /\ j > i + 3
         /\ j + 1 <= Len(code)
         /\ code[j] = code[i + 2]
         /\ SkipWhile(code, j + 1, Whitespace) <= Len(code)
         /\ code[SkipWhile(code, j + 1, Whitespace)] \in {")", ","}

\* The keys the lookup calls of code invoke.
InvokedKeys(code) ==
  {SubSeq(code, i + 3, KeyEnd(code, i) - 1) :
     i \in {k \in 1..Len(code) : LookupCallAt(code, k)}}

\* C25: extractUsedKeys returns exactly the keys that the text invokes
\* through the lookup call t(...): every key of a lookup call, and no key
\* that is the argument of another function whose name ends in t.
C25_UsedKeysExact ==
  fnOut.fn = "extractUsedKeys" => fnOut.value = InvokedKeys(fnArgs[1])


\* ------------------------------------------------------------------------
\* Claims about the writes of the dictionary files
\* ------------------------------------------------------------------------
\* C26: every write of a locale's dictionary file by the merge of the new
\* keys and by the translation sync is pretty-printed JSON followed by a
\* newline.
C26_DictionaryWritesEndWithNewline ==
  \A l \in Locales : \A i \in 1..Len(writes[l]) :
    writes[l][i].by \in {"updateCommonJson", "autoTranslateCommonJson", "translateMissingKeys"} =>
      /\ writes[l][i].indent > 0
      /\ writes[l][i].end = <<NL>>


\* ------------------------------------------------------------------------
\* Claims about the retries of processFileWithOpenAI
\* ------------------------------------------------------------------------
\* C27: when a response is a contract violation and a retry is allowed,
\* the request is issued again with an amended instruction: the call of
\* attempt k+1 has the counter k+1 and a prompt that starts with the notice
\* that the previous attempt was invalid, so it differs from the prompt of
\* the first attempt.
C27_RetryCarriesAmendedInstruction ==
  \A f \in Files : \A i \in 2..Len(requests[f]) :
    /\ requests[f][i].retryCount = requests[f][i - 1].retryCount + 1
    /\ HasAt(requests[f][i].prompt, 1, RetryWarning)
    /\ requests[f][i].prompt # requests[f][1].prompt

\* C28 (as stated): a completion that is one valid result object wrapped in
\* code fences is accepted on the attempt it arrives in, and no retry is
\* consumed.
C28_FencedCompletionAccepted ==
  [][\A f \in Files :
       Answer(f, Resp_Fenced) =>
         /\ fpc'[f] = "done"
         /\ retryCount' = retryCount
         /\ issued' = issued]_vars

\* C28 (amended): the completion is parsed as it arrives.  A result object
\* wrapped in code fences is a contract violation: it is retried while the
\* bound allows and fails the file afterwards, and it never reaches the
\* file or the aggregate.  The fence markers are stripped only from the
\* updatedCode of a parsed result that declares an update.
C28_FencedCompletionIsViolation ==
  [][\A f \in Files : \A r \in RefactorResponses :
       Answer(f, r) =>
         /\ r.content = "fenced" =>
              /\ disk' = disk /\ result' = result /\ allNewKeys' = allNewKeys
              /\ IF retryCount[f] < 2
                 THEN /\ fpc'[f] = "waiting"
                      /\ retryCount'[f] = retryCount[f] + 1
                      /\ issued'[f] = issued[f] + 1
                 ELSE fpc'[f] = "failed"
         /\ (r = Resp_B /\ fpc'[f] = "done") =>
              /\ result'[f].updatedCode = Code_B_Bare \o <<NL>>
              /\ disk'[f] = Code_B_Bare \o <<NL>>]_vars

\* A fenced result object has cost a file a retry, and another file holds
\* the code of an accepted result without its fence.
C28_Witness ==
  /\ \E f \in Files :
       lastAnswer[f] = "fenced" /\ retryCount[f] >= 1 /\ fpc[f] = "waiting"
  /\ \E f \in Files :
       fpc[f] = "done" /\ result[f] = Parsed(Resp_B) /\ disk[f] = Code_B_Bare \o <<NL>>

\* C29: an answer that declares an update and carries empty or blank code
\* is retried while the bound allows and fails the file afterwards, and no
\* step, of the refactoring or of the build fixes, leaves a file it writes
\* empty or blank.
C29_NoBlankOverwrite ==
  [][/\ \A f \in Files : \A r \in RefactorResponses \cup FixResponses :
          (/\ Answer(f, r) \/ (FixAnswer(r) /\ errorLines # <<>> /\ Head(errorLines) = f)
           /\ r.ok /\ r.content = "json" /\ r.needsUpdate
           /\ IsBlank(sanitizeCode(r.updatedCode))) =>
            IF retryCount[f] < 2
            THEN fpc'[f] = "waiting" /\ retryCount'[f] = retryCount[f] + 1
            ELSE fpc'[f] = "failed"
     /\ \A f \in Files : disk'[f] # disk[f] => ~IsBlank(disk'[f])]_vars

\* The paths at which a dictionary ends: its leaves and its empty nested
\* dictionaries.
EndPaths(d) ==
  LeafPaths(d) \cup {p \in MappingPaths(d) : NodeAt(Obj(d), p) = Obj(EmptyDict)}

\* A path of the reference that the target lacks while it holds the parent.
FirstMissing(reference, target, p) ==
  /\ ~HasPath(target, p)
  /\ HasPath(target, SubSeq(p, 1, Len(p) - 1))

\* C30: findMissingKeys copies a missing key with its whole subtree and
\* keeps the nesting.  Every leaf path of findMissingKeys(reference, target)
\* is a leaf path of reference with the same value and is absent from
\* target; the result holds, at every path the target is first missing,
\* the subtree the reference holds there; and no path at which the result
\* ends is present in target.
C30_MissingSubtreesVerbatim ==
  fnOut.fn = "findMissingKeys" =>
    LET reference == fnArgs[1]
        target == fnArgs[2]
        missing == fnOut.value
    IN  /\ \A p \in LeafPaths(missing) :
             /\ p \in LeafPaths(reference)
             /\ NodeAt(Obj(missing), p) = NodeAt(Obj(reference), p)
             /\ ~HasPath(target, p)
        /\ \A p \in KeyPaths(reference) :
             FirstMissing(reference, target, p) =>
               NodeAt(Obj(missing), p) = NodeAt(Obj(reference), p)
        /\ \A p \in EndPaths(missing) : ~HasPath(target, p)

\* findMissingKeys returned one leaf of a nested dictionary whose other
\* leaf the target holds already.
C30_Witness ==
  /\ fnOut.fn = "findMissingKeys"
  /\ \E p \in LeafPaths(fnArgs[1]) : \E q \in LeafPaths(fnOut.value) :
       /\ Len(p) = 2 /\ Len(q) = 2 /\ Head(p) = Head(q)
       /\ HasPath(fnArgs[2], p)
       /\ ~HasPath(Obj(fnOut.value).kv, p)

\* ------------------------------------------------------------------------
\* Claims about the worker pool and the convergence of the sync
\* ------------------------------------------------------------------------
\* A path of keys as flattenObject names it.
RECURSIVE JoinPath(_)
JoinPath(p) ==
  IF Len(p) = 1 THEN p[1] ELSE p[1] \o <<".">> \o JoinPath(Tail(p))

\* The leaf paths of the missing subtree whose translation is among res.
TranslatedLeaves(missing, l, res) ==
  {p \in LeafPaths(missing) :
     \E i \in 1..Len(res) :
       /\ res[i].path = JoinPath(p)
       /\ res[i].translated = Tr(l, NodeAt(Obj(missing), p).v)}

\* C31: a failure among the leaf translations of a locale does not discard
\* the locale's progress.  The dictionary written for the locale holds, at
\* its path, every leaf whose translation succeeded, and the dictionary of
\* the locale under way is written once, when no request is pending and no
\* item is queued.
C31_PartialProgressFlushed ==
  [][script = "populatePool" =>
       /\ PoolDone =>
            \A p \in TranslatedLeaves(CurrentMissing, CurrentLocale, results) :
              NodeAt(Obj(dicts'[CurrentLocale]), p) =
                Str(Tr(CurrentLocale, NodeAt(Obj(CurrentMissing), p).v))
       /\ \A l \in Locales :
            writes'[l] # writes[l] =>
              /\ spc = "pool" /\ l = CurrentLocale
              /\ WaitingWorkers = {} /\ queue = <<>>
              /\ writes[l] = <<>> /\ Len(writes'[l]) = 1]_vars

\* How often x occurs in the sequence s.
RECURSIVE Count(_, _)
Count(s, x) ==
  IF s = <<>> THEN 0
  ELSE (IF Head(s) = x THEN 1 ELSE 0) + Count(Tail(s), x)

\* The items of the pool that is running and the items the workers hold.
PoolItems == flattenObject(CurrentMissing)

PathsOf(s) == [i \in 1..Len(s) |-> s[i].path]

\* C32: in the pool every item is taken by one worker and translated at
\* most once.  While the pool runs, each item is in exactly one place: in
\* the queue, with one worker whose request is pending, among the results
\* or among the logged failures.  Once no request is pending the queue is
\* empty, the pool can return, and the results and the logged failures
\* together are as many as the items.
C32_PoolHandlesEachItemOnce ==
  (script = "populatePool" /\ mpc = "sync" /\ spc = "pool") =>
    /\ \A x \in Range(PathsOf(PoolItems)) :
         Count(PathsOf(PoolItems), x) =
           Count(PathsOf(queue), x)
             + Cardinality({w \in WaitingWorkers : witem[w].path = x})
             + Count(PathsOf(results), x)
             + Count(failures, x)
    /\ Len(queue) + Cardinality(WaitingWorkers) + Len(results) + Len(failures)
         = Len(PoolItems)
    /\ Cardinality(WaitingWorkers) <= MAX_CONCURRENT
    /\ \A w \in WaitingWorkers : witem[w] \in Range(PoolItems)
    /\ WaitingWorkers = {} =>
         /\ queue = <<>>
         /\ ENABLED PoolDone
         /\ Len(results) + Len(failures) = Len(PoolItems)

\* A pool of three items has returned every worker, with a result and a
\* logged failure among the three.
C32_Witness ==
  /\ script = "populatePool" /\ mpc = "sync" /\ spc = "pool"
  /\ Len(PoolItems) = 3
  /\ limit = 2
  /\ WaitingWorkers = {}
  /\ Len(results) >= 1
  /\ Len(failures) >= 1

\* The batches one after another.
RECURSIVE Flatten(_)
Flatten(ss) == IF ss = <<>> THEN <<>> ELSE Head(ss) \o Flatten(Tail(ss))

\* C33: for every value parsed from -c (0, negative numbers and NaN
\* included) the batch loop of processFiles terminates and its batches hold
\* every input file exactly once, in input order: the loop never makes more
\* passes than there are files, and the batches it ends with, one after
\* another, are the files.
C33_BatchLoopTerminatesForEveryLimit ==
  /\ fnOut.fn = "batching" => Len(fnOut.value.batches) <= Len(fnArgs[3])
  /\ fnOut.fn = "batches" => Flatten(fnOut.value.batches) = fnArgs[3]

\* ------------------------------------------------------------------------
\* Claims about the keys of the code processFiles writes
\* ------------------------------------------------------------------------
\* The keys that the code written for file f invokes and that the response
\* for f defines.
InvokedAndDefined(f) ==
  {k \in InvokedKeys(disk[f]) : k \in DOMAIN result[f].translations}

\* processFiles overwrote file f.
Overwritten(f) ==
  fpc[f] = "done" /\ result[f].needsUpdate /\ disk[f] = result[f].updatedCode

\* C34: after processFiles has returned, for every file it overwrote, every
\* key that the written code invokes through the lookup call and that the
\* response's translations define is in the dictionary of every locale,
\* with the text the response gives for it; a key invoked with further
\* arguments counts, and so does a run in which another file failed.
C34_InvokedKeysPersisted ==
  mpc = "translate" =>
    \A f \in Files :
      Overwritten(f) =>
        \A k \in InvokedAndDefined(f) : \A l \in AllLocales :
          /\ l \in hasDict
          /\ k \in DOMAIN dicts[l]
          /\ dicts[l][k] = Str(result[f].translations[k])

\* ------------------------------------------------------------------------
\* Claims about deepMerge on clashing shapes
\* ------------------------------------------------------------------------
\* C35: after deepMerge(target, source) every leaf path of source is in the
\* result with the source's value, whatever the target holds at that path
\* or above it (a string where the source holds a mapping, or a mapping
\* where the source holds a leaf).
C35_SourceLeavesInResult ==
  fnOut.fn = "deepMerge" =>
    \A p \in LeafPaths(fnArgs[2]) :
      NodeAt(Obj(fnOut.value), p) = NodeAt(Obj(fnArgs[2]), p)

\* ------------------------------------------------------------------------
\* Claims about the convergence of translateMissingKeys
\* ------------------------------------------------------------------------
\* The step in which translateMissingKeys finishes the locale under way
\* after every translation request of the locale succeeded: the one request
\* of part_002 returned the missing subtree translated, or every item of
\* the pool of nextjs-cleaner.sh has a result.
LocaleSucceeded ==
  \/ /\ script = "populateBatch"
     /\ mpc = "sync" /\ spc = "request"
     /\ \E r \in TreeResponses(CurrentMissing, dicts[CurrentLocale], CurrentLocale) :
          /\ TreeAnswerArrives(r)
          /\ ~translateTreeWithAI(r).threw
          /\ r.data = TranslatedTree(CurrentMissing, CurrentLocale)
  \/ /\ script = "populatePool"
     /\ mpc = "sync" /\ spc = "pool"
     /\ PoolDone
     /\ failures = <<>>
     /\ Len(results) = Len(flattenObject(CurrentMissing))

\* C36: the sync converges.  After translateMissingKeys has handled a
\* locale whose translation requests all succeeded, the written dictionary
\* of the locale misses no key of the reference, whatever the reference
\* holds (keys with the separator '.', mappings where the target holds a
\* leaf).
C36_SyncConverges ==
  [][LocaleSucceeded =>
       findMissingKeys(dicts'[REFERENCE_LOCALE], dicts'[CurrentLocale]) = EmptyDict]_vars

\* ------------------------------------------------------------------------
\* Claims about checkProjectHealth
\* ------------------------------------------------------------------------
\* checkProjectHealth has returned true, has returned false, or an error
\* has left it.
HealthEnded == mpc \in {"built", "unhealthy", "aborted"}

\* checkProjectHealth under a scheduler that lets every pending step
\* happen: the build ends and every request is answered.
SpecHealthFair == SpecHealth /\ WF_vars(HealthNext)

\* C37: checkProjectHealth always terminates.  A build runs only as attempt
\* 1 to MAX_BUILD_ATTEMPTS, and each build after the first as the next
\* attempt; the build that succeeds makes it return true; a failed build
\* whose fix pass wrote no file makes it return false at once; the failed
\* build of the last attempt makes it return false when its fix pass is
\* over; and it ends in every run.
C37_HealthCheckTerminates ==
  /\ [][/\ (mpc = "health" /\ mpc' # "health") => attempt \in 1..MAX_BUILD_ATTEMPTS
        /\ (mpc # "health" /\ mpc' = "health") =>
             (attempt' = attempt + 1 /\ attempt' <= MAX_BUILD_ATTEMPTS)
        /\ attempt' # attempt => (mpc = "fixing" /\ fixedAnyFile)
        /\ BuildSucceeds => mpc' = "built"
        /\ mpc' = "built" => BuildSucceeds
        /\ (FinishFixes /\ ~fixedAnyFile) => mpc' = "unhealthy"
        /\ (FinishFixes /\ attempt = MAX_BUILD_ATTEMPTS) => mpc' = "unhealthy"
        /\ HealthEnded => UNCHANGED vars]_vars
  /\ <>HealthEnded

\* checkProjectHealth returned false after the failed build of the last
\* attempt, each earlier attempt having written a fix.
C37_Witness ==
  /\ mpc = "unhealthy"
  /\ attempt = MAX_BUILD_ATTEMPTS + 1
  /\ fixedAnyFile

\* C38: a failure while the errors are extracted from the build log (a
\* non-success status, a completion that does not parse after the retries,
\* an object without a valid extractedErrors list) is absorbed by
\* extractFullErrorMessages: analyzeAndFixErrors gets an empty list, fixes
\* nothing, and checkProjectHealth returns false; the process is not
\* aborted.
C38_ExtractionFailureAbsorbed ==
  /\ [][\A outcome \in ExtractionOutcomes :
          (BuildFails(outcome) /\ outcome.threw # "none") =>
            (mpc' = "fixing" /\ errorLines' = <<>> /\ ~fixedAnyFile')]_vars
  /\ [](mpc # "aborted")

=============================================================================
